---------------------------- MODULE Spec2Model ----------------------------
(***************************************************************************)
(* A model of the Mattermost / Jira relay bot (package mattermost_bot).    *)
(*                                                                         *)
(* Modelled so far: MessageHandlers (handlers.py), MCPClient               *)
(* (mcp_client.py), MattermostBot (bot.py) and the parts of Storage,       *)
(* AuthManager and LLMClient that MessageHandlers calls.                   *)
(*                                                                         *)
(* Representation of Python values:                                        *)
(*   - a str is a sequence of tokens; a token is one character ("a"), or   *)
(*     the name of a fixed piece of text of the source ("HELP_MESSAGE");   *)
(*     f-strings and "+" are concatenation (\o);                           *)
(*   - None is the one-token sequence <<"None">>;                          *)
(*   - a dict is a function whose DOMAIN is the set of keys present.       *)
(***************************************************************************)
EXTENDS Naturals, Sequences, FiniteSets, TLC

VARIABLES
    storage,               \* table users of the sqlite database (storage.py:60-69)
    dialog_states,         \* MessageHandlers.dialog_states (handlers.py:44)
    temp_data,             \* MessageHandlers.temp_data (handlers.py:45)
    conversation_history,  \* MessageHandlers.conversation_history (handlers.py:47)
    user_sessions,         \* MCPClient._user_sessions (mcp_client.py:40)
    user_contexts,         \* MCPClient._user_contexts (mcp_client.py:41)
    mcp_url,               \* MCPClient._mcp_url (mcp_client.py:38)
    ex,                    \* per user: the frame of the running _handle_user_query coroutine
    ncalls,                \* number of handle_message calls made so far (observer)
    last,                  \* the handle_message call that returned last (observer)
    boundary,              \* the external call made by the last step (observer)
    mcp,                   \* per caller: the frame of its running or last MCPClient call
    response,              \* per user: what the last llm_client.chat call of the
                           \* handle_message call under way returned (observer)
    server_process,        \* MCPClient._server_process and the process behind it
    stop,                  \* the frame of the stop_server coroutine
    running,               \* MattermostBot.running (bot.py:48)
    main,                  \* the frame of MattermostBot.start, the main task
    boot,                  \* the frame of the MCPClient.start_server calls
    ws                     \* the frame of the _connect_websocket task

vars == <<storage, dialog_states, temp_data, conversation_history, user_sessions,
          user_contexts, mcp_url, ex, ncalls, last, boundary, mcp, response,
          server_process, stop, running, main, boot, ws>>

\* The variables of MattermostBot, which MessageHandlers and the calls and the
\* shutdown of MCPClient leave alone
bot_vars == <<running, main, boot, ws>>

----------------------------------------------------------------------------
(* Bounds of the model *)

\* handle_message calls in one behaviour of Spec
MaxCalls == 3
\* handle_message calls in one behaviour of SpecLoop
MaxLoopCalls == 1
\* handle_message calls in one behaviour of SpecHistory
MaxHistoryCalls == 12
\* handle_message calls in one behaviour of SpecFilter
MaxFilterCalls == 1
\* handle_message calls in one behaviour of SpecSessions
MaxSessionCalls == 2
\* handle_message calls in one behaviour of SpecInterleave
MaxInterleaveCalls == 3
\* calls of Storage in one behaviour of SpecStorage
MaxStorageCalls == 2

\* start_server calls in one behaviour of SpecStart
MaxStartCalls == 3
\* frames the message loop takes in one behaviour of SpecIngest
MaxEvents == 3
\* failed connections in a row that SpecIngest tells apart
MaxFailures == 3
\* the clock of _authenticate_websocket is read in steps of 1/TicksPerSecond s
TicksPerSecond == 3

Users == {"u1", "u2"}

----------------------------------------------------------------------------
(* Python str and None *)

None == <<"None">>

\* bool(x) of a str or None
Truthy(x) == x # None /\ x # <<>>

Min(a, b) == IF a <= b THEN a ELSE b

WHITESPACE == {" ", "\n", "\t"}

RECURSIVE lstrip(_)
lstrip(s) == IF s # <<>> /\ Head(s) \in WHITESPACE THEN lstrip(Tail(s)) ELSE s

RECURSIVE rstrip(_)
rstrip(s) ==
    IF s # <<>> /\ s[Len(s)] \in WHITESPACE THEN rstrip(SubSeq(s, 1, Len(s) - 1)) ELSE s

\* str.strip()
strip(s) == rstrip(lstrip(s))

\* The cased characters of the model's alphabet. "cyr_x" / "CYR_X" stand for the
\* Cyrillic letters of the command words.
UPPER == <<"A", "B", "C", "E", "H", "L", "M", "P", "R", "S", "T",
           "CYR_P", "CYR_O", "CYR_M", "CYR_SHCH", "CYR_SOFT", "CYR_S", "CYR_R",
           "CYR_A", "CYR_V", "CYR_K", "CYR_B", "CYR_CH", "CYR_I", "CYR_T">>
LOWER == <<"a", "b", "c", "e", "h", "l", "m", "p", "r", "s", "t",
           "cyr_p", "cyr_o", "cyr_m", "cyr_shch", "cyr_soft", "cyr_s", "cyr_r",
           "cyr_a", "cyr_v", "cyr_k", "cyr_b", "cyr_ch", "cyr_i", "cyr_t">>

lower_char(c) ==
    IF \E i \in 1..Len(UPPER) : UPPER[i] = c
    THEN LOWER[CHOOSE i \in 1..Len(UPPER) : UPPER[i] = c]
    ELSE c

\* str.lower()
lower(s) == [i \in 1..Len(s) |-> lower_char(s[i])]

\* needle in haystack (substring)
Contains(haystack, needle) ==
    \E i \in 0..(Len(haystack) - Len(needle)) :
        SubSeq(haystack, i + 1, i + Len(needle)) = needle

\* s[:n]
Prefix(s, n) == SubSeq(s, 1, Min(n, Len(s)))

\* s[-n:] for n > 0
LastN(s, n) == IF Len(s) <= n THEN s ELSE SubSeq(s, Len(s) - n + 1, Len(s))

\* sep.join(list)
RECURSIVE join(_, _)
join(sep, list) ==
    IF list = <<>> THEN <<>>
    ELSE IF Len(list) = 1 THEN list[1]
    ELSE list[1] \o sep \o join(sep, Tail(list))

\* base64.b64encode(s.encode()).decode(): an injective re-encoding of s
b64encode(s) == <<"b64[">> \o s \o <<"]">>

----------------------------------------------------------------------------
(* Configuration and environment *)

\* BotConfig.jira_url (mandatory) and BotConfig.confluence_url (optional, here set)
jira_url == <<"JIRA_URL">>
confluence_url == <<"CONFLUENCE_URL">>

\* The URL start_server records once the health probe has answered
MCP_URL == <<"http://127.0.0.1:8000/mcp">>

\* The texts of the posts users write
P_help   == <<" ", "/", "H", "e", "l", "p">>
P_clear  == <<"/", "c", "l", "e", "a", "r">>
P_sbros  == <<"CYR_S", "cyr_b", "cyr_r", "cyr_o", "cyr_s", "\n">>
P_maria  == <<"M", "a", "r", "i", "a">>
P_bob    == <<" ", "b", "o", "b", " ">>
P_secret == <<"s", "e", "c", "r", "e", "t">>
P_blank  == <<" ", " ">>

\* The message handle_post passes to handle_message for a post: the text
\* stripped, and no call at all when nothing is left (bot.py:282-285)
Delivered(posts) == {strip(p) : p \in posts} \ {<<>>}

M_help   == strip(P_help)
M_clear  == strip(P_clear)
M_sbros  == strip(P_sbros)
M_maria  == strip(P_maria)
M_bob    == strip(P_bob)
M_secret == strip(P_secret)

Messages == Delivered({P_help, P_sbros, P_maria, P_bob, P_secret, P_blank})

\* The accounts the external Jira server accepts (username, password)
JiraAccounts == {<<M_maria, M_secret>>}

\* Status code of GET {jira_url}/rest/api/2/myself with HTTP basic auth
JiraStatus(username, password) ==
    IF <<username, password>> \in JiraAccounts THEN "200" ELSE "401"

----------------------------------------------------------------------------
(* storage.py: Storage *)

\* Fernet token of a plaintext: an opaque wrapping only _decrypt opens
fernet_encrypt(plaintext) == <<"fernet[">> \o plaintext \o <<"]">>
fernet_decrypt(token) == SubSeq(token, 2, Len(token) - 1)

_encrypt(plaintext) == IF ~Truthy(plaintext) THEN <<>> ELSE fernet_encrypt(plaintext)

_decrypt(ciphertext) == IF ~Truthy(ciphertext) THEN <<>> ELSE fernet_decrypt(ciphertext)

\* A row of table users (without the surrogate key and the timestamps)
Row(ju, jp, cu, cp) ==
    [jira_username |-> ju, jira_password_encrypted |-> jp,
     confluence_username |-> cu, confluence_password_encrypted |-> cp]

\* save_user_credentials(mm_user_id, jira_username=..., jira_password=...): the table after it
save_user_credentials(table, mm_user_id, jira_username, jira_password) ==
    LET jira_encrypted == IF Truthy(jira_password) THEN _encrypt(jira_password) ELSE None
    IN  IF mm_user_id \in DOMAIN table
        THEN LET old == table[mm_user_id]
                 new == [old EXCEPT
                           !.jira_username =
                               IF jira_username # None THEN jira_username ELSE @,
                           !.jira_password_encrypted =
                               IF jira_password # None THEN jira_encrypted ELSE @]
             IN  [table EXCEPT ![mm_user_id] = new]
        ELSE [u \in DOMAIN table \cup {mm_user_id} |->
                IF u = mm_user_id
                THEN Row(jira_username, jira_encrypted, None, None)
                ELSE table[u]]

get_user_credentials(table, mm_user_id) ==
    IF mm_user_id \notin DOMAIN table
    THEN [jira_username |-> None, jira_password |-> None,
          confluence_username |-> None, confluence_password |-> None]
    ELSE LET row == table[mm_user_id]
         IN  [jira_username |-> row.jira_username,
              jira_password |->
                  IF Truthy(row.jira_password_encrypted)
                  THEN _decrypt(row.jira_password_encrypted) ELSE None,
              confluence_username |-> row.confluence_username,
              confluence_password |->
                  IF Truthy(row.confluence_password_encrypted)
                  THEN _decrypt(row.confluence_password_encrypted) ELSE None]

has_jira_credentials(table, mm_user_id) ==
    LET creds == get_user_credentials(table, mm_user_id)
    IN  Truthy(creds.jira_username) /\ Truthy(creds.jira_password)

\* Fernet.decrypt opens the tokens Fernet.encrypt made with the same key and raises
\* InvalidToken on every other text
fernet_valid(token) ==
    Len(token) >= 2 /\ Head(token) = "fernet[" /\ token[Len(token)] = "]"

\* The texts get_user_credentials(mm_user_id) passes to self._decrypt, in the order
\* of the calls (storage.py:217-225)
decrypted_by_get(table, mm_user_id) ==
    IF mm_user_id \notin DOMAIN table THEN <<>>
    ELSE LET row == table[mm_user_id]
         IN  (IF Truthy(row.jira_password_encrypted)
              THEN <<row.jira_password_encrypted>> ELSE <<>>)
             \o (IF Truthy(row.confluence_password_encrypted)
                 THEN <<row.confluence_password_encrypted>> ELSE <<>>)

\* What a call of has_jira_credentials(mm_user_id) does: the _decrypt calls it
\* makes, the exception it raises if one of them fails, its value otherwise
\* (storage.py:252-253)
call_has_jira_credentials(table, mm_user_id) ==
    LET tokens == decrypted_by_get(table, mm_user_id)
        bad == {i \in 1..Len(tokens) : ~fernet_valid(tokens[i])}
    IN  IF bad # {}
        THEN [decrypts |-> CHOOSE i \in bad : \A j \in bad : i <= j,
              raised |-> "InvalidToken", value |-> FALSE]
        ELSE [decrypts |-> Len(tokens), raised |-> "",
              value |-> has_jira_credentials(table, mm_user_id)]

----------------------------------------------------------------------------
(* auth_manager.py: AuthManager *)

\* validate_jira_credentials: <<success, error>>
validate_jira_credentials(username, password) ==
    LET status_code == JiraStatus(username, password)
    IN  IF status_code = "200" THEN <<TRUE, None>>
        ELSE IF status_code = "401" THEN <<FALSE, <<"BAD_LOGIN_OR_PASSWORD">>>>
        ELSE <<FALSE, <<"CHECK_ERROR:", status_code>>>>

\* save_and_validate_jira: [result |-> <<success, error>>, table |-> the table after it]
save_and_validate_jira(table, mm_user_id, username, password) ==
    LET r == validate_jira_credentials(username, password)
    IN  [result |-> r,
         table |-> IF r[1] THEN save_user_credentials(table, mm_user_id, username, password)
                   ELSE table]

\* The methods class AuthManager defines (auth_manager.py:14-173)
AuthManagerMethods ==
    {"validate_jira_credentials", "validate_confluence_credentials",
     "save_and_validate_jira", "save_and_validate_confluence", "get_user_auth_headers"}

----------------------------------------------------------------------------
(* handlers.py: constants and reply texts *)

DIALOG_STATE_NONE == "none"
DIALOG_STATE_WAITING_USERNAME == "waiting_username"
DIALOG_STATE_WAITING_PASSWORD == "waiting_password"

DialogStates ==
    {DIALOG_STATE_NONE, DIALOG_STATE_WAITING_USERNAME, DIALOG_STATE_WAITING_PASSWORD}

\* ["/start", "/help", "помощь", "справка"]
HELP_COMMANDS ==
    {<<"/", "s", "t", "a", "r", "t">>,
     <<"/", "h", "e", "l", "p">>,
     <<"cyr_p", "cyr_o", "cyr_m", "cyr_o", "cyr_shch", "cyr_soft">>,
     <<"cyr_s", "cyr_p", "cyr_r", "cyr_a", "cyr_v", "cyr_k", "cyr_a">>}

\* ["/clear", "/reset", "сброс", "очистить"]
CLEAR_COMMANDS ==
    {<<"/", "c", "l", "e", "a", "r">>,
     <<"/", "r", "e", "s", "e", "t">>,
     <<"cyr_s", "cyr_b", "cyr_r", "cyr_o", "cyr_s">>,
     <<"cyr_o", "cyr_ch", "cyr_i", "cyr_s", "cyr_t", "cyr_i", "cyr_t", "cyr_soft">>}

\* `max_attempts = 30` probes of start_server
max_attempts == 30
\* `auth_timeout = 10` seconds, and the timeout of one recv
auth_timeout == 10
recv_timeout == 1
max_iterations == 5
max_history == 20
\* r[:1000] of a tool result quoted in a summary
summary_cut == 1000

get_help_message == <<"HELP_MESSAGE">>
CLEARED_MESSAGE == <<"HISTORY_CLEARED">>
REGISTRATION_PROMPT == <<"SETUP_NEEDED", "ENTER_JIRA_LOGIN">>
ALL_CONFIGURED == <<"ALL_CONFIGURED">>
PASSWORD_PROMPT == <<"ENTER_PASSWORD">>
UNKNOWN_STATE == <<"UNKNOWN_DIALOG_STATE">>
NO_TOOLS_MESSAGE == <<"NO_MCP_TOOLS">>
NO_LLM_ANSWER == <<"NO_LLM_ANSWER">>
TOO_MANY_ITERATIONS == <<"TOO_MANY_ITERATIONS">>

\* The reply after a successful validation (handlers.py:164-173)
success_message ==
    LET services == (IF Truthy(jira_url) THEN << <<"Jira">> >> ELSE <<>>)
                    \o (IF Truthy(confluence_url) THEN << <<"Confluence">> >> ELSE <<>>)
    IN  <<"CREDENTIALS_OK_FOR">> \o join(<<" ", "AND", " ">>, services) \o <<"NOW_ASK">>

\* The reply after a failed validation (handlers.py:176-179)
failure_message(error) == <<"CREDENTIALS_ERROR:">> \o error \o <<"TRY_AGAIN", "ENTER_JIRA_LOGIN">>

\* "Результаты выполнения:\n" + "\n---\n".join([r[:1000] for r in all_tool_results[-3:]])
results_summary(header, all_tool_results) ==
    LET recent == LastN(all_tool_results, 3)
    IN  header \o join(<<"\n", "---", "\n">>,
                       [i \in 1..Len(recent) |-> Prefix(recent[i], summary_cut)])

RESULTS_HEADER == <<"RESULTS:", "\n">>
LIMIT_HEADER == <<"RESULTS_AT_LIMIT:", "\n">>

\* f"Произошла ошибка при обработке запроса: {str(e)}"
query_error_message(e) == <<"QUERY_ERROR:">> \o e

SYSTEM_PROMPT == <<"SYSTEM_PROMPT">>

----------------------------------------------------------------------------
(* llm_client.py: LLMClient *)

\* The model's output is a sequence of blocks: plain text, a well-formed
\* <tool_call>{"name": ..., "arguments": ...}</tool_call> descriptor, or a descriptor
\* whose braces do not hold JSON.
TextBlock(text) == [kind |-> "text", name |-> "", text |-> text]
CallBlock(name) == [kind |-> "call", name |-> name, text |-> <<>>]
\* The text of a descriptor between whose braces there is no JSON
BAD_DESCRIPTOR == <<"<tool_call>", "{oops}", "</tool_call>">>
BadBlock == [kind |-> "bad", name |-> "", text |-> BAD_DESCRIPTOR]

\* The manifest list_tools returns (names of the endpoint's capabilities)
TOOLS == <<"jira_search", "jira_get_issue">>

O_answer  == << TextBlock(<<"d", "o", "n", "e">>) >>
O_empty   == << >>
O_one     == << CallBlock("jira_search") >>
O_two     == << TextBlock(<<" ", "h", "m">>), CallBlock("jira_search"), CallBlock("jira_get_issue") >>
O_unknown == << CallBlock("delete_everything") >>
O_mixed   == << CallBlock("delete_everything"), BadBlock, CallBlock("jira_get_issue") >>
O_garbled == << TextBlock(<<"s", "e", "e">>), BadBlock, CallBlock("jira_search") >>
O_only_bad == << TextBlock(<<"s", "e", "e", " ">>), BadBlock >>

LLMOutputs == {O_answer, O_empty, O_one, O_two, O_unknown}

RECURSIVE SelectBlocks(_, _)
SelectBlocks(blocks, kinds) ==
    IF blocks = <<>> THEN <<>>
    ELSE (IF Head(blocks).kind \in kinds THEN <<Head(blocks)>> ELSE <<>>)
         \o SelectBlocks(Tail(blocks), kinds)

RECURSIVE ConcatText(_)
ConcatText(blocks) ==
    IF blocks = <<>> THEN <<>> ELSE Head(blocks).text \o ConcatText(Tail(blocks))

\* _extract_tool_calls: the calls whose name is in the manifest, numbered by the
\* position of their descriptor among the descriptors found. It returns None when
\* none is left; None and the empty list are both written <<>> (the caller only
\* tests the value's truth).
\* str(i) of a small number
DIGITS == <<"0", "1", "2", "3", "4", "5", "6", "7", "8", "9">>

\* Variant of KeepCalls: the name is not looked up in the manifest
RECURSIVE KeepCalls_unfiltered(_, _, _)
KeepCalls_unfiltered(matches, i, tool_names) ==
    IF matches = <<>> THEN <<>>
    ELSE (IF Head(matches).kind = "call"
          THEN << [id |-> <<"call_", DIGITS[i + 1]>>, name |-> Head(matches).name] >>
          ELSE <<>>)
         \o KeepCalls_unfiltered(Tail(matches), i + 1, tool_names)

RECURSIVE KeepCalls(_, _, _)
KeepCalls(matches, i, tool_names) ==
    IF matches = <<>> THEN <<>>
    ELSE (IF Head(matches).kind = "call" /\ Head(matches).name \in tool_names
          THEN << [id |-> <<"call_", DIGITS[i + 1]>>, name |-> Head(matches).name] >>
          ELSE <<>>)
         \o KeepCalls(Tail(matches), i + 1, tool_names)

\* Variant of _extract_tool_calls: the names are not looked up in the manifest
_extract_tool_calls_unfiltered(content, tools) ==
    LET matches == SelectBlocks(content, {"call", "bad"})
        tool_names == {tools[k] : k \in 1..Len(tools)}
        tool_calls == KeepCalls_unfiltered(matches, 0, tool_names)
    IN  IF matches = <<>> THEN <<>> ELSE tool_calls

_extract_tool_calls(content, tools) ==
    LET matches == SelectBlocks(content, {"call", "bad"})
        tool_names == {tools[k] : k \in 1..Len(tools)}
        tool_calls == KeepCalls(matches, 0, tool_names)
    IN  IF matches = <<>> THEN <<>> ELSE tool_calls

\* Variant of _clean_content: only the descriptors that hold JSON are removed
_clean_content_keeps_malformed(content) ==
    strip(ConcatText(SelectBlocks(content, {"text", "bad"})))

\* _clean_content: the text without the descriptors, stripped. The pattern asks
\* for braces between the tags, not for JSON (llm_client.py:231-236)
_clean_content(content) == strip(ConcatText(SelectBlocks(content, {"text"})))

\* chat(messages, tools): what it returns for the model output `content`
chat(content, tools) ==
    [content |-> _clean_content(content),
     tool_calls |-> IF tools # <<>> THEN _extract_tool_calls(content, tools) ELSE <<>>]

----------------------------------------------------------------------------
(* mcp_client.py: MCPClient *)

\* _get_or_create_session(mm_user_id, auth_headers), with `handshake` the outcome
\* ("ok" or "fail") of opening transport, session and protocol if it has to:
\* [ok |-> a session was returned, sessions, contexts |-> the two maps after it]
_get_or_create_session(sessions, contexts, url, mm_user_id, auth_headers, handshake) ==
    IF mm_user_id \in DOMAIN sessions
    THEN [ok |-> TRUE, sessions |-> sessions, contexts |-> contexts]
    ELSE IF ~Truthy(url) \/ handshake # "ok"
    THEN [ok |-> FALSE, sessions |-> sessions, contexts |-> contexts]
    ELSE [ok |-> TRUE,
          sessions |-> [u \in DOMAIN sessions \cup {mm_user_id} |->
                          IF u = mm_user_id THEN [headers |-> auth_headers] ELSE sessions[u]],
          contexts |-> [u \in DOMAIN contexts \cup {mm_user_id} |->
                          IF u = mm_user_id THEN [headers |-> auth_headers] ELSE contexts[u]]]

\* A caller without user id (mm_user_id = None)
NoUser == ""

NoSession == [headers |-> None]

\* The frame of a caller that has no MCPClient call running and has made none
McpIdle ==
    [pc |-> "idle", op |-> "", tool |-> "", auth_headers |-> None, session |-> NoSession,
     outcome |-> "", error |-> "", result |-> <<>>]

\* The frame after a call of `op`: it used `session`, and returned `result`
\* (outcome "returned") or raised (outcome "raised"); `error` names the step
\* that failed, "" if none did
McpDone(op, tool, auth_headers, session, outcome, error, result) ==
    [pc |-> "idle", op |-> op, tool |-> tool, auth_headers |-> auth_headers,
     session |-> session, outcome |-> outcome, error |-> error, result |-> result]

Handshakes == {"ok", "fail"}
\* session.list_tools(): the manifest, an empty manifest, or an exception
ListOutcomes == {"tools", "empty", "error"}
\* session.call_tool(): a result or an exception
ToolOutcomes == {"result", "error"}

\* list_tools(auth_headers, mm_user_id): the list it returns
list_tools_result(session_ok, outcome) ==
    IF session_ok /\ outcome = "tools" THEN TOOLS ELSE <<>>

\* str(result) of a capability's result, and str(e) of a failed invocation
result_str(tool_name) == <<"RESULT_OF", tool_name>>
TOOL_EXCEPTION == <<"TOOL_FAILED">>
LLM_EXCEPTION == <<"LLM_API_ERROR">>

----------------------------------------------------------------------------
(* handlers.py: MessageHandlers *)

\* self.dialog_states.get(mm_user_id, DIALOG_STATE_NONE)
DialogState(u) ==
    IF u \in DOMAIN dialog_states THEN dialog_states[u] ELSE DIALOG_STATE_NONE

\* self.conversation_history.get(mm_user_id, [])
History(u) ==
    IF u \in DOMAIN conversation_history THEN conversation_history[u] ELSE <<>>

\* A turn of the list sent to the model
Turn(role, content, tool_call_id, tool_calls) ==
    [role |-> role, content |-> content, tool_call_id |-> tool_call_id,
     tool_calls |-> tool_calls]

\* The frame of _handle_user_query while no exchange of the user is running
Idle ==
    [pc |-> "idle", n |-> 0, message |-> <<>>, query |-> <<>>, auth_headers |-> None,
     tools |-> <<>>, messages |-> <<>>, iteration |-> 0, all_tool_results |-> <<>>,
     content |-> <<>>, tool_calls |-> <<>>, tool_results |-> <<>>,
     state0 |-> DIALOG_STATE_NONE, hist0 |-> 0, llm_calls |-> 0]

NoCall == [kind |-> "none", user |-> "", name |-> ""]

\* No value of llm_client.chat yet, or its last call raised
NoResponse == [raw |-> <<>>, content |-> <<>>, tool_calls |-> <<>>, manifest |-> <<>>]

\* What handle_message(user, message) did: entered in `state` with a history of
\* hist0 turns, returned `reply` or raised `raised`
Returned(n, user, message, state, hist0, reply, raised) ==
    [n |-> n, user |-> user, message |-> message, state |-> state, hist0 |-> hist0,
     reply |-> reply, raised |-> raised]

\* Variant of route: the credential check of line 106 is left out
route_without_credential_check(message, state, table, mm_user_id) ==
    IF lower(message) \in HELP_COMMANDS THEN "help"
    ELSE IF lower(message) \in CLEAR_COMMANDS THEN "clear"
    ELSE IF state # DIALOG_STATE_NONE THEN "dialog"
    ELSE "query"

\* Variant of route: the dialog state is looked at before the command words
route_state_first(message, state, table, mm_user_id) ==
    IF state # DIALOG_STATE_NONE THEN "dialog"
    ELSE IF lower(message) \in HELP_COMMANDS THEN "help"
    ELSE IF lower(message) \in CLEAR_COMMANDS THEN "clear"
    ELSE IF ~has_jira_credentials(table, mm_user_id) THEN "registration"
    ELSE "query"

\* The branch handle_message takes (handlers.py:94-113)
route(message, state, table, mm_user_id) ==
    IF lower(message) \in HELP_COMMANDS THEN "help"
    ELSE IF lower(message) \in CLEAR_COMMANDS THEN "clear"
    ELSE IF state # DIALOG_STATE_NONE THEN "dialog"
    ELSE IF ~has_jira_credentials(table, mm_user_id) THEN "registration"
    ELSE "query"

\* Variant of clear_conversation: the user's entry is kept
clear_conversation_keeps(history, mm_user_id) == history

\* Variant of clear_conversation: the histories of all users are dropped
clear_conversation_everyone(history, mm_user_id) == [x \in {} |-> <<>>]

\* clear_conversation: the history map after it
clear_conversation(history, mm_user_id) ==
    [u \in DOMAIN history \ {mm_user_id} |-> history[u]]

\* Variant of _save_conversation: the slice keeps the head, [:max_history]
_save_conversation_keeps_oldest(history, mm_user_id, user_message, assistant_response) ==
    LET old == IF mm_user_id \in DOMAIN history THEN history[mm_user_id] ELSE <<>>
        appended == old \o << [role |-> "user", content |-> user_message],
                              [role |-> "assistant", content |-> assistant_response] >>
        kept == IF Len(appended) > max_history
                THEN SubSeq(appended, 1, max_history)
                ELSE appended
    IN  [u \in DOMAIN history \cup {mm_user_id} |->
            IF u = mm_user_id THEN kept ELSE history[u]]

\* Variant of _save_conversation: the slice is one turn shorter,
\* [-(max_history - 1):]
_save_conversation_odd_cut(history, mm_user_id, user_message, assistant_response) ==
    LET old == IF mm_user_id \in DOMAIN history THEN history[mm_user_id] ELSE <<>>
        appended == old \o << [role |-> "user", content |-> user_message],
                              [role |-> "assistant", content |-> assistant_response] >>
        kept == IF Len(appended) > max_history
                THEN SubSeq(appended, Len(appended) - max_history + 2, Len(appended))
                ELSE appended
    IN  [u \in DOMAIN history \cup {mm_user_id} |->
            IF u = mm_user_id THEN kept ELSE history[u]]

\* _save_conversation: the history map after it
_save_conversation(history, mm_user_id, user_message, assistant_response) ==
    LET old == IF mm_user_id \in DOMAIN history THEN history[mm_user_id] ELSE <<>>
        appended == old \o << [role |-> "user", content |-> user_message],
                              [role |-> "assistant", content |-> assistant_response] >>
        kept == IF Len(appended) > max_history
                THEN SubSeq(appended, Len(appended) - max_history + 1, Len(appended))
                ELSE appended
    IN  [u \in DOMAIN history \cup {mm_user_id} |->
            IF u = mm_user_id THEN kept ELSE history[u]]

\* d[k] = v of a dict
Put(d, k, v) == [x \in DOMAIN d \cup {k} |-> IF x = k THEN v ELSE d[x]]

\* handle_message(u, m) returns `reply` (raised = "") or raises `raised`
Return(u, m, reply, raised) ==
    last' = Returned(ncalls + 1, u, m, DialogState(u), Len(History(u)), reply, raised)

\* The Authorization header _handle_user_query builds (handlers.py:201-209); the
\* dict without the header is written None (mcp_client.py:109 reads both alike)
auth_header(creds) ==
    IF Truthy(creds.jira_username) /\ Truthy(creds.jira_password)
    THEN <<"Basic", " ">> \o b64encode(creds.jira_username \o <<":">> \o creds.jira_password)
    ELSE None

\* Variant of _start_registration: the scratch entry is not created
_start_registration_without_scratch(u, m) ==
    IF ~has_jira_credentials(storage, u)
    THEN /\ dialog_states' = Put(dialog_states, u, DIALOG_STATE_WAITING_USERNAME)
         /\ Return(u, m, REGISTRATION_PROMPT, "")
         /\ UNCHANGED temp_data
    ELSE /\ Return(u, m, ALL_CONFIGURED, "")
         /\ UNCHANGED <<dialog_states, temp_data>>

\* _start_registration (handlers.py:115-134)
_start_registration(u, m) ==
    IF ~has_jira_credentials(storage, u)
    THEN /\ dialog_states' = Put(dialog_states, u, DIALOG_STATE_WAITING_USERNAME)
         /\ temp_data' = Put(temp_data, u, [username |-> None])
         /\ Return(u, m, REGISTRATION_PROMPT, "")
    ELSE /\ Return(u, m, ALL_CONFIGURED, "")
         /\ UNCHANGED <<dialog_states, temp_data>>

\* Variant of waiting_username_step: the login is stored as a credential at once
waiting_username_step_saves(u, m, message) ==
    IF u \notin DOMAIN temp_data
    THEN /\ Return(u, m, None, "KeyError")
         /\ UNCHANGED <<storage, dialog_states, temp_data>>
    ELSE /\ temp_data' = [temp_data EXCEPT ![u] = [username |-> message]]
         /\ dialog_states' = Put(dialog_states, u, DIALOG_STATE_WAITING_PASSWORD)
         /\ Return(u, m, PASSWORD_PROMPT, "")
         /\ storage' = save_user_credentials(storage, u, message, message)

\* Variant of waiting_username_step: the login is stored in lower case
waiting_username_step_lowercases(u, m, message) ==
    IF u \notin DOMAIN temp_data
    THEN /\ Return(u, m, None, "KeyError")
         /\ UNCHANGED <<storage, dialog_states, temp_data>>
    ELSE /\ temp_data' = [temp_data EXCEPT ![u] = [username |-> lower(message)]]
         /\ dialog_states' = Put(dialog_states, u, DIALOG_STATE_WAITING_PASSWORD)
         /\ Return(u, m, PASSWORD_PROMPT, "")
         /\ UNCHANGED storage

\* Variant of waiting_username_step: the dialog is closed after the login
waiting_username_step_closes(u, m, message) ==
    IF u \notin DOMAIN temp_data
    THEN /\ Return(u, m, None, "KeyError")
         /\ UNCHANGED <<storage, dialog_states, temp_data>>
    ELSE /\ temp_data' = [temp_data EXCEPT ![u] = [username |-> message]]
         /\ dialog_states' = Put(dialog_states, u, DIALOG_STATE_NONE)
         /\ Return(u, m, PASSWORD_PROMPT, "")
         /\ UNCHANGED storage

\* state == waiting_username (handlers.py:149-152)
waiting_username_step(u, m, message) ==
    IF u \notin DOMAIN temp_data
    THEN /\ Return(u, m, None, "KeyError")
         /\ UNCHANGED <<storage, dialog_states, temp_data>>
    ELSE /\ temp_data' = [temp_data EXCEPT ![u] = [username |-> message]]
         /\ dialog_states' = Put(dialog_states, u, DIALOG_STATE_WAITING_PASSWORD)
         /\ Return(u, m, PASSWORD_PROMPT, "")
         /\ UNCHANGED storage

\* state == waiting_password (handlers.py:154-160): the username is read, then
\* self.auth_manager.save_and_validate_both is looked up. AuthManager defines no
\* such method, so the lookup raises AttributeError and lines 161-179 never run.
waiting_password_step(u, m, message) ==
    /\ UNCHANGED <<storage, dialog_states, temp_data>>
    /\ IF u \notin DOMAIN temp_data \/ temp_data[u].username = None
       THEN Return(u, m, None, "KeyError")
       ELSE /\ "save_and_validate_both" \notin AuthManagerMethods
            /\ Return(u, m, None, "AttributeError")

_handle_dialog_state(u, m, message, state) ==
    IF state = DIALOG_STATE_WAITING_USERNAME THEN waiting_username_step(u, m, message)
    ELSE IF state = DIALOG_STATE_WAITING_PASSWORD THEN waiting_password_step(u, m, message)
    ELSE /\ Return(u, m, UNKNOWN_STATE, "")
         /\ UNCHANGED <<storage, dialog_states, temp_data>>

\* _handle_user_query up to its first await (handlers.py:195-215)
start_user_query(u, m, query) ==
    LET creds == get_user_credentials(storage, u)
    IN  ex' = [ex EXCEPT ![u] =
                 [Idle EXCEPT !.pc = "list_tools", !.n = ncalls + 1, !.message = m,
                              !.query = query, !.auth_headers = auth_header(creds),
                              !.state0 = DialogState(u), !.hist0 = Len(History(u))]]

\* The observers mcp and response are about the exchange under way: when u calls
\* handle_message, the entries of u and of the users without a running exchange
\* are dropped
Observed(u, c) == c = NoUser \/ (c # u /\ ex[c].pc # "idle")

\* handle_message(mm_user_id, message), up to its return or its first await
handle_message(u, m) ==
    /\ UNCHANGED bot_vars
    /\ ex[u].pc = "idle"
    /\ ncalls' = ncalls + 1
    /\ boundary' = NoCall
    /\ mcp' = [c \in DOMAIN mcp |-> IF Observed(u, c) THEN mcp[c] ELSE McpIdle]
    /\ response' = [c \in Users |-> IF Observed(u, c) THEN response[c] ELSE NoResponse]
    /\ UNCHANGED <<user_sessions, user_contexts, mcp_url, server_process, stop>>
    /\ LET message == strip(m)
           state == DialogState(u)
           branch == route(message, state, storage, u)
       IN  CASE branch = "help" ->
                  /\ Return(u, m, get_help_message, "")
                  /\ UNCHANGED <<storage, dialog_states, temp_data, conversation_history, ex>>
             [] branch = "clear" ->
                  /\ conversation_history' = clear_conversation(conversation_history, u)
                  /\ Return(u, m, CLEARED_MESSAGE, "")
                  /\ UNCHANGED <<storage, dialog_states, temp_data, ex>>
             [] branch = "dialog" ->
                  /\ _handle_dialog_state(u, m, message, state)
                  /\ UNCHANGED <<conversation_history, ex>>
             [] branch = "registration" ->
                  /\ _start_registration(u, m)
                  /\ UNCHANGED <<storage, conversation_history, ex>>
             [] branch = "query" ->
                  /\ start_user_query(u, m, message)
                  /\ UNCHANGED <<storage, dialog_states, temp_data, conversation_history,
                                 last>>

\* The exchange of u ends with final_response: it is saved and returned
Finish(u, final_response) ==
    /\ conversation_history' =
           _save_conversation(conversation_history, u, ex[u].query, final_response)
    /\ last' = Returned(ex[u].n, u, ex[u].message, ex[u].state0, ex[u].hist0,
                        final_response, "")
    /\ ex' = [ex EXCEPT ![u] = Idle]

\* Variant of Abort: the error message is saved as an answer is
Abort_saves(u, reply) == Finish(u, reply)

\* The exchange of u ends without an answer: `reply` is returned, nothing is saved
\* (handlers.py:216-217, 364-366)
Abort(u, reply) ==
    /\ last' = Returned(ex[u].n, u, ex[u].message, ex[u].state0, ex[u].hist0, reply, "")
    /\ ex' = [ex EXCEPT ![u] = Idle]
    /\ UNCHANGED conversation_history

\* What _handle_user_query does with the list list_tools returned, up to the
\* first model call (handlers.py:216-262)
after_list_tools(u, tools) ==
    LET history == History(u)
    IN  IF tools = <<>>
        THEN Abort(u, NO_TOOLS_MESSAGE)
        ELSE /\ ex' = [ex EXCEPT ![u].pc = "chat", ![u].tools = tools,
                          ![u].messages =
                              << Turn("system", SYSTEM_PROMPT, None, <<>>) >>
                              \o [i \in 1..Len(history) |->
                                    Turn(history[i].role, history[i].content, None, <<>>)]
                              \o << Turn("user", ex[u].query, None, <<>>) >>]
             /\ UNCHANGED <<conversation_history, last>>

\* await self.mcp_client.list_tools(auth_headers, mm_user_id) as one step, and what
\* follows it up to the first model call (handlers.py:215-262, mcp_client.py:178-244)
mcp_list_tools(u, handshake, outcome) ==
    /\ UNCHANGED bot_vars
    /\ ex[u].pc = "list_tools"
    /\ mcp[u].pc = "idle"
    /\ LET s == _get_or_create_session(user_sessions, user_contexts, mcp_url, u,
                                       ex[u].auth_headers, handshake)
           tools == list_tools_result(s.ok, outcome)
       IN  /\ user_sessions' = s.sessions
           /\ user_contexts' = s.contexts
           /\ boundary' = [kind |-> "list_tools", user |-> u, name |-> ""]
           /\ mcp' = [mcp EXCEPT ![u] =
                         McpDone("list_tools", "", ex[u].auth_headers,
                                 IF s.ok THEN s.sessions[u] ELSE NoSession, "returned",
                                 IF ~s.ok THEN "session"
                                 ELSE IF outcome = "error" THEN "list_tools" ELSE "",
                                 tools)]
           /\ after_list_tools(u, tools)
    /\ UNCHANGED <<storage, dialog_states, temp_data, mcp_url, ncalls, response,
                   server_process, stop>>

\* Variant of terminal_response: an empty text is answered with the fallback
\* even when tool results were gathered
terminal_response_without_summary(content, all_tool_results) ==
    IF Truthy(content) /\ Truthy(strip(content)) THEN content
    ELSE NO_LLM_ANSWER

\* The answer of an exchange that ends in a round without tool calls (handlers.py:337-346)
terminal_response(content, all_tool_results) ==
    IF Truthy(content) /\ Truthy(strip(content)) THEN content
    ELSE IF all_tool_results # <<>> THEN results_summary(RESULTS_HEADER, all_tool_results)
    ELSE NO_LLM_ANSWER

\* Variant of limit_response: the gathered results are not summarised
limit_response_without_summary(all_tool_results) == TOO_MANY_ITERATIONS

\* The answer of an exchange whose rounds are used up (handlers.py:354-359)
limit_response(all_tool_results) ==
    IF all_tool_results # <<>> THEN results_summary(LIMIT_HEADER, all_tool_results)
    ELSE TOO_MANY_ITERATIONS

\* One model call of the loop returns `content` (handlers.py:262-274, 335-350)
llm_chat(u, content) ==
    /\ UNCHANGED bot_vars
    /\ ex[u].pc = "chat"
    /\ boundary' = [kind |-> "chat", user |-> u, name |-> ""]
    /\ LET returned == chat(content, ex[u].tools)
       IN  /\ response' = [response EXCEPT ![u] =
                              [raw |-> content, content |-> returned.content,
                               tool_calls |-> returned.tool_calls,
                               manifest |-> ex[u].tools]]
           /\ IF returned.tool_calls # <<>>
              THEN /\ ex' = [ex EXCEPT ![u].pc = "call_tool",
                                       ![u].content = returned.content,
                                       ![u].tool_calls = returned.tool_calls,
                                       ![u].tool_results = <<>>,
                                       ![u].llm_calls = @ + 1]
                   /\ UNCHANGED <<conversation_history, last>>
              ELSE Finish(u, terminal_response(returned.content, ex[u].all_tool_results))
    /\ UNCHANGED <<storage, dialog_states, temp_data, user_sessions, user_contexts,
                   mcp_url, ncalls, mcp, server_process, stop>>

\* One model call of the loop raises (llm_client.py:79-81, handlers.py:364-366)
llm_chat_raises(u) ==
    /\ UNCHANGED bot_vars
    /\ ex[u].pc = "chat"
    /\ boundary' = [kind |-> "chat", user |-> u, name |-> ""]
    /\ Abort(u, query_error_message(LLM_EXCEPTION))
    /\ response' = [response EXCEPT ![u] = NoResponse]
    /\ UNCHANGED <<storage, dialog_states, temp_data, user_sessions, user_contexts,
                   mcp_url, ncalls, mcp, server_process, stop>>

\* Variant of loop_continues: the loop has no last round
loop_continues_always(iteration) == TRUE

\* The next index of the loop `for iteration in range(max_iterations)`, or the
\* end of the loop
loop_continues(iteration) == iteration + 1 < max_iterations

\* The tool call of the round that is invoked next
current_tool_call(f) == f.tool_calls[Len(f.tool_results) + 1]

\* Variant of tool_result_turn: the placeholder of a failed call carries no id
tool_result_turn_without_id(tool_call, ok) ==
    IF ok THEN Turn("tool", result_str(tool_call.name), tool_call.id, <<>>)
    ELSE Turn("tool", <<"ERROR:", " ">> \o TOOL_EXCEPTION, None, <<>>)

\* The turn that answers one tool call: its result, or the placeholder of its
\* failure (handlers.py:293-309)
tool_result_turn(tool_call, ok) ==
    Turn("tool",
         IF ok THEN result_str(tool_call.name) ELSE <<"ERROR:", " ">> \o TOOL_EXCEPTION,
         tool_call.id, <<>>)

\* What _handle_user_query does once call_tool has returned (ok) or raised, up to
\* the next await (handlers.py:287-334, 352-362)
after_call_tool(u, ok) ==
    LET f == ex[u]
        tool_call == current_tool_call(f)
        tool_results == Append(f.tool_results, tool_result_turn(tool_call, ok))
        all_tool_results ==
            IF ok THEN Append(f.all_tool_results, result_str(tool_call.name))
            ELSE f.all_tool_results
        messages ==
            f.messages \o << Turn("assistant", f.content, None, f.tool_calls) >>
            \o tool_results
    IN  IF Len(tool_results) < Len(f.tool_calls)
        THEN /\ ex' = [ex EXCEPT ![u].tool_results = tool_results,
                                 ![u].all_tool_results = all_tool_results]
             /\ UNCHANGED <<conversation_history, last>>
        ELSE IF loop_continues(f.iteration)
        THEN /\ ex' = [ex EXCEPT ![u].pc = "chat",
                                 ![u].messages = messages,
                                 ![u].iteration = @ + 1,
                                 ![u].tool_results = tool_results,
                                 ![u].all_tool_results = all_tool_results]
             /\ UNCHANGED <<conversation_history, last>>
        ELSE Finish(u, limit_response(all_tool_results))

\* One capability call of the round as one step: it returns or raises, and what
\* follows it up to the next await (handlers.py:278-334, 352-362,
\* mcp_client.py:246-276)
mcp_call_tool(u, handshake, outcome) ==
    /\ UNCHANGED bot_vars
    /\ ex[u].pc = "call_tool"
    /\ mcp[u].pc = "idle"
    /\ LET f == ex[u]
           tool_call == current_tool_call(f)
           s == _get_or_create_session(user_sessions, user_contexts, mcp_url, u,
                                       f.auth_headers, handshake)
           ok == s.ok /\ outcome = "result"
       IN  /\ user_sessions' = s.sessions
           /\ user_contexts' = s.contexts
           /\ boundary' = [kind |-> "call_tool", user |-> u, name |-> tool_call.name]
           /\ mcp' = [mcp EXCEPT ![u] =
                         McpDone("call_tool", tool_call.name, f.auth_headers,
                                 IF s.ok THEN s.sessions[u] ELSE NoSession,
                                 IF ok THEN "returned" ELSE "raised",
                                 IF ~s.ok THEN "session"
                                 ELSE IF outcome = "error" THEN "call_tool" ELSE "",
                                 IF ok THEN result_str(tool_call.name) ELSE <<>>)]
           /\ after_call_tool(u, ok)
    /\ UNCHANGED <<storage, dialog_states, temp_data, mcp_url, ncalls, response,
                   server_process, stop>>

----------------------------------------------------------------------------
(* MCPClient, one step per await *)

\* Variant of session_key: one key for every user
session_key_shared(mm_user_id) == "shared"

\* The key under which the session of a user is cached (mcp_client.py:101-102,
\* 141-142)
session_key(mm_user_id) == mm_user_id

\* Variant of cache_hit: the cache is not looked at
cache_hit_never(sessions, key, auth_headers) == FALSE

\* `if mm_user_id in self._user_sessions` (mcp_client.py:101): the headers of the
\* call are not compared with those of the cached session
cache_hit(sessions, key, auth_headers) == key \in DOMAIN sessions

\* Variant of handshake_caches: the session is cached before it is initialized
handshake_caches_always(r) == TRUE

\* The two maps are written once session.initialize() has returned
\* (mcp_client.py:134-142)
handshake_caches(r) == r = "ok"

\* Variant of list_tools_outcome: the exception is passed on
list_tools_outcome_raises(error) == "raised"

\* list_tools catches every exception and returns [] (mcp_client.py:242-244)
list_tools_outcome(error) == "returned"

\* A call of list_tools or call_tool for u ends: `error` names the step that
\* raised ("" if none), `result` is what the session returned. call_tool re-raises
\* (mcp_client.py:274-276), and _handle_user_query goes on from there.
mcp_completes(u, f, error, result) ==
    /\ boundary' = [kind |-> f.op, user |-> u, name |-> f.tool]
    /\ IF f.op = "list_tools"
       THEN LET outcome == IF error = "" THEN "returned" ELSE list_tools_outcome(error)
                tools == IF error = "" THEN result ELSE <<>>
            IN  /\ mcp' = [mcp EXCEPT ![u] =
                              McpDone(f.op, f.tool, f.auth_headers, f.session, outcome,
                                      error, tools)]
                /\ IF outcome = "returned" THEN after_list_tools(u, tools)
                   ELSE Abort(u, query_error_message(TOOL_EXCEPTION))
       ELSE /\ mcp' = [mcp EXCEPT ![u] =
                          McpDone(f.op, f.tool, f.auth_headers, f.session,
                                  IF error = "" THEN "returned" ELSE "raised", error,
                                  IF error = "" THEN result ELSE <<>>)]
            /\ after_call_tool(u, error = "")

\* The call goes on to its next await
mcp_goes_on(u, f) ==
    /\ mcp' = [mcp EXCEPT ![u] = f]
    /\ UNCHANGED <<ex, conversation_history, last, boundary>>

\* self.mcp_client.list_tools(...) or call_tool(...) is called for u and runs up to
\* its first await: the cache lookup of _get_or_create_session
\* (mcp_client.py:101-105)
get_session(u) ==
    /\ UNCHANGED bot_vars
    /\ ex[u].pc \in {"list_tools", "call_tool"}
    /\ mcp[u].pc = "idle"
    /\ LET f == [McpIdle EXCEPT
                    !.op = ex[u].pc,
                    !.tool = IF ex[u].pc = "call_tool"
                             THEN current_tool_call(ex[u]).name ELSE "",
                    !.auth_headers = ex[u].auth_headers]
       IN  IF cache_hit(user_sessions, session_key(u), f.auth_headers)
           THEN mcp_goes_on(u, [f EXCEPT !.pc = "use",
                                         !.session = user_sessions[session_key(u)]])
           ELSE IF ~Truthy(mcp_url) THEN mcp_completes(u, f, "RuntimeError", <<>>)
           ELSE mcp_goes_on(u, [f EXCEPT !.pc = "enter_context"])
    /\ UNCHANGED <<storage, dialog_states, temp_data, user_sessions, user_contexts,
                   mcp_url, ncalls, response, server_process, stop>>

\* await context.__aenter__(): the transport is opened (mcp_client.py:118-122)
enter_context(u, r) ==
    /\ UNCHANGED bot_vars
    /\ mcp[u].pc = "enter_context"
    /\ IF r = "ok" THEN mcp_goes_on(u, [mcp[u] EXCEPT !.pc = "enter_session"])
       ELSE mcp_completes(u, mcp[u], "enter_context", <<>>)
    /\ UNCHANGED <<storage, dialog_states, temp_data, user_sessions, user_contexts,
                   mcp_url, ncalls, response, server_process, stop>>

\* await session.__aenter__(): the session is opened (mcp_client.py:126-128)
enter_session(u, r) ==
    /\ UNCHANGED bot_vars
    /\ mcp[u].pc = "enter_session"
    /\ IF r = "ok" THEN mcp_goes_on(u, [mcp[u] EXCEPT !.pc = "initialize"])
       ELSE mcp_completes(u, mcp[u], "enter_session", <<>>)
    /\ UNCHANGED <<storage, dialog_states, temp_data, user_sessions, user_contexts,
                   mcp_url, ncalls, response, server_process, stop>>

\* await session.initialize(), and the two maps are written
\* (mcp_client.py:131-145)
initialize_session(u, r) ==
    /\ UNCHANGED bot_vars
    /\ mcp[u].pc = "initialize"
    /\ LET handle == [headers |-> mcp[u].auth_headers]
       IN  /\ IF handshake_caches(r)
              THEN /\ user_sessions' = Put(user_sessions, session_key(u), handle)
                   /\ user_contexts' = Put(user_contexts, session_key(u), handle)
              ELSE UNCHANGED <<user_sessions, user_contexts>>
           /\ IF r = "ok"
              THEN mcp_goes_on(u, [mcp[u] EXCEPT !.pc = "use", !.session = handle])
              ELSE mcp_completes(u, mcp[u], "initialize", <<>>)
    /\ UNCHANGED <<storage, dialog_states, temp_data, mcp_url, ncalls, response,
                   server_process, stop>>

\* await session.list_tools() (mcp_client.py:200-244)
session_list_tools(u, r) ==
    /\ UNCHANGED bot_vars
    /\ mcp[u].pc = "use" /\ mcp[u].op = "list_tools"
    /\ CASE r = "tools" -> mcp_completes(u, mcp[u], "", TOOLS)
         [] r = "empty" -> mcp_completes(u, mcp[u], "", <<>>)
         [] r = "error" -> mcp_completes(u, mcp[u], "list_tools", <<>>)
    /\ UNCHANGED <<storage, dialog_states, temp_data, user_sessions, user_contexts,
                   mcp_url, ncalls, response, server_process, stop>>

\* await session.call_tool(tool_name, arguments) (mcp_client.py:272-276)
session_call_tool(u, r) ==
    /\ UNCHANGED bot_vars
    /\ mcp[u].pc = "use" /\ mcp[u].op = "call_tool"
    /\ IF r = "result" THEN mcp_completes(u, mcp[u], "", result_str(mcp[u].tool))
       ELSE mcp_completes(u, mcp[u], "call_tool", <<>>)
    /\ UNCHANGED <<storage, dialog_states, temp_data, user_sessions, user_contexts,
                   mcp_url, ncalls, response, server_process, stop>>

\* list_tools(auth_headers, None): no user id, [] at once (mcp_client.py:190-192)
list_tools_no_user ==
    /\ UNCHANGED bot_vars
    /\ mcp[NoUser].pc = "idle"
    /\ mcp' = [mcp EXCEPT ![NoUser] =
                  McpDone("list_tools", "", None, NoSession, "returned", "no_user", <<>>)]
    /\ boundary' = NoCall
    /\ UNCHANGED <<storage, dialog_states, temp_data, conversation_history, user_sessions,
                   user_contexts, mcp_url, ex, ncalls, last, response, server_process,
                   stop>>

\* The frame of stop_server before it is called
StopIdle ==
    [pc |-> "idle", left |-> {}, sessions |-> {}, contexts |-> {},
     tried_sessions |-> {}, tried_contexts |-> {}, logged |-> FALSE]

CloseOutcomes == {"ok", "raise"}

\* Variant of close_error_propagates: the exception leaves stop_server
close_error_propagates_always(r) == TRUE

\* An exception of __aexit__ is logged and the loop goes on
\* (mcp_client.py:156-157, 162-163)
close_error_propagates(r) == FALSE

\* stop_server leaves by an exception: nothing after the raising line runs
stop_raises == stop' = [stop EXCEPT !.pc = "done"]

\* stop_server is called: list(self._user_sessions.items()) (mcp_client.py:153)
stop_server_begin ==
    /\ UNCHANGED bot_vars
    /\ stop.pc = "idle"
    /\ stop' = [stop EXCEPT !.pc = "sessions", !.left = DOMAIN user_sessions,
                            !.sessions = DOMAIN user_sessions]
    /\ boundary' = NoCall
    /\ UNCHANGED <<storage, dialog_states, temp_data, conversation_history, user_sessions,
                   user_contexts, mcp_url, ex, ncalls, last, mcp, response,
                   server_process>>

\* await session.__aexit__(None, None, None) of one listed session
\* (mcp_client.py:153-157)
stop_close_session(k, r) ==
    /\ UNCHANGED bot_vars
    /\ stop.pc = "sessions"
    /\ k \in stop.left
    /\ IF r = "raise" /\ close_error_propagates(r) THEN stop_raises
       ELSE stop' = [stop EXCEPT !.left = @ \ {k}, !.tried_sessions = @ \cup {k},
                                 !.logged = @ \/ r = "raise"]
    /\ boundary' = NoCall
    /\ UNCHANGED <<storage, dialog_states, temp_data, conversation_history, user_sessions,
                   user_contexts, mcp_url, ex, ncalls, last, mcp, response,
                   server_process>>

\* The first loop is through: list(self._user_contexts.items()) (mcp_client.py:159)
stop_contexts_begin ==
    /\ UNCHANGED bot_vars
    /\ stop.pc = "sessions"
    /\ stop.left = {}
    /\ stop' = [stop EXCEPT !.pc = "contexts", !.left = DOMAIN user_contexts,
                            !.contexts = DOMAIN user_contexts]
    /\ boundary' = NoCall
    /\ UNCHANGED <<storage, dialog_states, temp_data, conversation_history, user_sessions,
                   user_contexts, mcp_url, ex, ncalls, last, mcp, response,
                   server_process>>

\* await context.__aexit__(None, None, None) of one listed context
\* (mcp_client.py:159-163)
stop_close_context(k, r) ==
    /\ UNCHANGED bot_vars
    /\ stop.pc = "contexts"
    /\ k \in stop.left
    /\ IF r = "raise" /\ close_error_propagates(r) THEN stop_raises
       ELSE stop' = [stop EXCEPT !.left = @ \ {k}, !.tried_contexts = @ \cup {k},
                                 !.logged = @ \/ r = "raise"]
    /\ boundary' = NoCall
    /\ UNCHANGED <<storage, dialog_states, temp_data, conversation_history, user_sessions,
                   user_contexts, mcp_url, ex, ncalls, last, mcp, response,
                   server_process>>

WaitOutcomes == {"exited", "timeout"}

\* `if self._server_process:` terminate(), wait(timeout=5), kill() on
\* TimeoutExpired, and the handle is dropped (mcp_client.py:169-175)
terminate(process, w) ==
    IF process.handle
    THEN [handle |-> FALSE, state |-> IF w = "exited" THEN "exited" ELSE "killed"]
    ELSE process

\* The maps are cleared and the server process is terminated; wait(timeout=5)
\* returns or times out, and then the process is killed (mcp_client.py:165-176)
stop_terminate(w) ==
    /\ UNCHANGED bot_vars
    /\ stop.pc = "contexts"
    /\ stop.left = {}
    /\ user_sessions' = [k \in {} |-> NoSession]
    /\ user_contexts' = [k \in {} |-> NoSession]
    /\ server_process' = terminate(server_process, w)
    /\ stop' = [stop EXCEPT !.pc = "done"]
    /\ boundary' = NoCall
    /\ UNCHANGED <<storage, dialog_states, temp_data, conversation_history, mcp_url, ex,
                   ncalls, last, mcp, response>>

----------------------------------------------------------------------------
(* MCPClient.start_server and MattermostBot.initialize *)

\* The frame of start_server when no call is running. attempts and slept count
\* the probes and the sleeps of the call under way or of the last call; calls,
\* launched and skipped count the calls made, the processes started and the
\* calls that returned at the "already running" test; healthy says that a probe
\* has been answered with 200; outcome is how the last call ended
BootIdle ==
    [pc |-> "idle", attempts |-> 0, slept |-> 0, calls |-> 0, launched |-> 0,
     skipped |-> 0, healthy |-> FALSE, outcome |-> ""]

\* No endpoint process yet (mcp_client.py:37)
NoProcess == [handle |-> FALSE, state |-> "none"]

\* subprocess.Popen starts the process or raises (uv is not installed)
PopenOutcomes == {"ok", "raise"}
\* client.get(.../healthz): status 200, another status, or an exception
ProbeOutcomes == {"200", "other", "exception"}
\* driver.login() returns or raises
LoginOutcomes == {"ok", "raise"}

\* Variant of already_started: the handle is not looked at
already_started_never(process) == FALSE

\* `if self._server_process is not None` (mcp_client.py:52)
already_started(process) == process.handle

\* Variant of probes_left: the loop never gives up
probes_left_always(attempts) == TRUE

\* `for i in range(max_attempts)` (mcp_client.py:83): another probe follows
\* after `attempts` probes
probes_left(attempts) == attempts < max_attempts

\* A frame of the event stream, as _handle_websocket_message and handle_post read
\* it: whether it is JSON, its "event", whether data.post is there, and of the
\* post the type of its channel, its user_id and its message (bot.py:230-283)
Event(json, event, has_post, channel_type, user_id, message) ==
    [json |-> json, event |-> event, has_post |-> has_post,
     channel_type |-> channel_type, user_id |-> user_id, message |-> message]

NoEvent == Event(FALSE, "", FALSE, "", "", <<>>)

\* The id driver.users.get_user("me") returns (bot.py:260-261)
bot_user_id == "bot"

E_hello   == Event(TRUE, "hello", FALSE, "", "", <<>>)
E_typing  == Event(TRUE, "typing", FALSE, "", "", <<>>)
E_garbage == Event(FALSE, "", FALSE, "", "", <<>>)
E_no_post == Event(TRUE, "posted", FALSE, "", "", <<>>)
E_direct  == Event(TRUE, "posted", TRUE, "D", "u1", P_maria)
E_second  == Event(TRUE, "posted", TRUE, "D", "u2", P_help)
E_own     == Event(TRUE, "posted", TRUE, "D", bot_user_id, P_maria)
E_public  == Event(TRUE, "posted", TRUE, "O", "u1", P_maria)
E_blank   == Event(TRUE, "posted", TRUE, "D", "u1", P_blank)
E_nobody  == Event(TRUE, "posted", TRUE, "D", "", P_maria)

Events ==
    {E_hello, E_typing, E_garbage, E_no_post, E_direct, E_second, E_own, E_public,
     E_blank, E_nobody}

\* The frame of _connect_websocket before the task is created. sent and confirmed
\* say that the challenge has been sent and that "hello" has been received on
\* the connection under way, late that this "hello" came when more than
\* auth_timeout had passed; elapsed is time.time() - start_time in ticks;
\* error names what ended the last connection ("" for a clean close), failures
\* counts the connections in a row that an exception ended, up to MaxFailures;
\* event is the frame being handled; arrived counts the frames the message loop
\* has taken; forwarded, started and posted list, by their number of arrival,
\* the frames for which handle_message was called, for which its body began to
\* run, and for which a reply was posted
WsNone ==
    [pc |-> "none", sent |-> FALSE, confirmed |-> FALSE, late |-> FALSE, elapsed |-> 0,
     error |-> "", failures |-> 0, event |-> NoEvent, arrived |-> 0, forwarded |-> <<>>, started |-> <<>>,
     posted |-> <<>>]

\* The frame of _connect_websocket at `await websockets.connect(...)`
\* (bot.py:158-165)
WsConnecting == [WsNone EXCEPT !.pc = "connecting"]

\* start_server returned to the caller that awaits it: initialize goes on to
\* driver.login() (bot.py:86-127)
start_server_returns ==
    main' = IF main.pc = "start_server" THEN [main EXCEPT !.pc = "login"] ELSE main

\* start_server raised: initialize logs and re-raises (bot.py:82-84), start
\* passes it on (bot.py:333) and run exits the process (bot.py:388-390)
start_server_raises ==
    main' = IF main.pc = "start_server" THEN [main EXCEPT !.pc = "exited"] ELSE main

\* start_server is called, by initialize (bot.py:81) or by another holder of the
\* client, and runs up to its first await: the "already running" test, Popen and
\* the first probe request (mcp_client.py:52-86)
start_server_call(p) ==
    /\ main.pc \in {"initialize", "start_server", "serving"}
    /\ boot.calls < MaxStartCalls
    /\ boot.pc = "idle" \/ already_started(server_process)
    /\ LET called == [boot EXCEPT !.calls = @ + 1]
           awaited == IF main.pc = "initialize" THEN [main EXCEPT !.pc = "start_server"]
                      ELSE main
       IN  IF already_started(server_process)
           THEN /\ boot' = [called EXCEPT !.skipped = @ + 1,
                                         !.outcome = IF boot.pc = "idle" THEN "skipped" ELSE @]
                /\ main' = IF main.pc = "initialize" THEN [main EXCEPT !.pc = "login"]
                           ELSE main
                /\ UNCHANGED server_process
           ELSE IF p = "raise"
           THEN /\ boot' = [called EXCEPT !.outcome = "popen_raised"]
                /\ main' = IF main.pc = "initialize" THEN [main EXCEPT !.pc = "exited"]
                           ELSE main
                /\ UNCHANGED server_process
           ELSE /\ boot' = [called EXCEPT !.pc = "probe", !.attempts = 0, !.slept = 0,
                                         !.launched = @ + 1, !.outcome = ""]
                /\ main' = awaited
                /\ server_process' = [handle |-> TRUE, state |-> "running"]
    /\ boundary' = NoCall
    /\ UNCHANGED <<storage, dialog_states, temp_data, conversation_history, user_sessions,
                   user_contexts, mcp_url, ex, ncalls, last, mcp, response, stop, running,
                   ws>>

\* await self.client.get(.../healthz) is answered (mcp_client.py:84-91)
probe(r) ==
    /\ boot.pc = "probe"
    /\ IF r = "200"
       THEN /\ boot' = [boot EXCEPT !.pc = "idle", !.attempts = @ + 1, !.healthy = TRUE,
                                    !.outcome = "returned"]
            /\ mcp_url' = MCP_URL
            /\ start_server_returns
       ELSE /\ boot' = [boot EXCEPT !.pc = "sleep", !.attempts = @ + 1]
            /\ UNCHANGED <<mcp_url, main>>
    /\ boundary' = NoCall
    /\ UNCHANGED <<storage, dialog_states, temp_data, conversation_history, user_sessions,
                   user_contexts, ex, ncalls, last, mcp, response, server_process, stop,
                   running, ws>>

\* await asyncio.sleep(1) is over: the next probe is sent, or the loop is through
\* and RuntimeError is raised (mcp_client.py:92-94)
probe_sleep ==
    /\ boot.pc = "sleep"
    /\ IF probes_left(boot.attempts)
       THEN /\ boot' = [boot EXCEPT !.pc = "probe", !.slept = @ + 1]
            /\ UNCHANGED main
       ELSE /\ boot' = [boot EXCEPT !.pc = "idle", !.slept = @ + 1, !.outcome = "raised"]
            /\ start_server_raises
    /\ boundary' = NoCall
    /\ UNCHANGED <<storage, dialog_states, temp_data, conversation_history, user_sessions,
                   user_contexts, mcp_url, ex, ncalls, last, mcp, response, server_process,
                   stop, running, ws>>

\* The rest of initialize and the beginning of start: driver.login() returns or
\* raises (bot.py:126-131); after it running is set, the websocket task is
\* created and runs up to websockets.connect (bot.py:334-341, 158-165)
driver_login(r) ==
    /\ main.pc = "login"
    /\ IF r = "ok"
       THEN /\ running' = TRUE
            /\ main' = [main EXCEPT !.pc = "serving"]
            /\ ws' = WsConnecting
       ELSE /\ main' = [main EXCEPT !.pc = "exited"]
            /\ UNCHANGED <<running, ws>>
    /\ boundary' = NoCall
    /\ UNCHANGED <<storage, dialog_states, temp_data, conversation_history, user_sessions,
                   user_contexts, mcp_url, ex, ncalls, last, mcp, response, server_process,
                   stop, boot>>

----------------------------------------------------------------------------
(* MattermostBot._connect_websocket and the handling of one event *)

\* websockets.connect, websocket.send and the driver's requests return or raise
CallOutcomes == {"ok", "raise"}

\* The event loop's thread is inside a synchronous request of the driver
\* (bot.py:260, 289, 295): no other coroutine runs until it returns
Blocked == ws.pc \in {"get_me", "get_channel", "get_user"}

\* Variant of loop_goes_on: the loop ends
loop_goes_on_never(is_running) == FALSE

\* `while self.running:` (bot.py:158)
loop_goes_on(is_running) == is_running

\* Variant of auth_time_left: the loop never times out
auth_time_left_always(elapsed) == TRUE

\* `while time.time() - start_time < auth_timeout:` (bot.py:205)
auth_time_left(elapsed) == elapsed < auth_timeout * TicksPerSecond

\* Variant of is_confirmation: any event confirms
is_confirmation_any(event) == TRUE

\* `if event.get("event") == "hello":` (bot.py:210)
is_confirmation(event) == event.event = "hello"

\* Variant of is_direct: every channel passes
is_direct_any(channel_type) == TRUE

\* `if channel.get("type") != "D": return` (bot.py:290-292)
is_direct(channel_type) == channel_type = "D"

\* loop.run_until_complete(...) called on the thread of a running event loop
\* raises RuntimeError before the coroutine is scheduled; the loop of
\* handle_post is the running one, asyncio.get_event_loop() returns it
\* (bot.py:304-312)
run_until_complete(loop_is_running) ==
    IF loop_is_running THEN "RuntimeError" ELSE "result"

\* The connection is left without a delay and `while self.running` is tested
\* again (bot.py:158)
ws_again(f) ==
    ws' = IF loop_goes_on(running)
          THEN [f EXCEPT !.pc = "connecting", !.sent = FALSE, !.confirmed = FALSE,
                         !.late = FALSE, !.elapsed = 0, !.event = NoEvent]
          ELSE [f EXCEPT !.pc = "ended", !.elapsed = 0, !.event = NoEvent]

\* An exception leaves the `async with`: both except clauses sleep 5 seconds if
\* the bot is running, and the loop goes on (bot.py:180-187)
ws_failed(f, error) ==
    IF running
    THEN ws' = [f EXCEPT !.pc = "sleep", !.elapsed = 0, !.error = error,
                        !.failures = IF @ < MaxFailures THEN @ + 1 ELSE @,
                        !.event = NoEvent]
    ELSE ws_again([f EXCEPT !.error = error])

\* The frame goes back to the message loop, to wait for the next frame
\* (bot.py:175)
ws_live(f) == ws' = [f EXCEPT !.pc = "live", !.event = NoEvent]

\* await websockets.connect(...) returns or raises; on return
\* _authenticate_websocket runs up to `await websocket.send` (bot.py:158-199)
ws_connect(r) ==
    /\ ws.pc = "connecting"
    /\ IF r = "ok" THEN ws' = [ws EXCEPT !.pc = "auth_send", !.error = ""]
       ELSE ws_failed(ws, "connect")
    /\ boundary' = NoCall
    /\ UNCHANGED <<storage, dialog_states, temp_data, conversation_history, user_sessions,
                   user_contexts, mcp_url, ex, ncalls, last, mcp, response, server_process,
                   stop, running, main, boot>>

\* await websocket.send(challenge) returns or raises (bot.py:199-205)
ws_auth_send(r) ==
    /\ ws.pc = "auth_send"
    /\ IF r = "ok" THEN ws' = [ws EXCEPT !.pc = "auth_recv", !.sent = TRUE, !.elapsed = 0]
       ELSE ws_failed(ws, "send")
    /\ boundary' = NoCall
    /\ UNCHANGED <<storage, dialog_states, temp_data, conversation_history, user_sessions,
                   user_contexts, mcp_url, ex, ncalls, last, mcp, response, server_process,
                   stop, running, main, boot>>

\* The loop of _authenticate_websocket after a recv that took d ticks and gave
\* nothing that confirms: it goes on while the time is not up, else it raises
\* the timeout (bot.py:205, 220)
auth_goes_on(d) ==
    LET f == [ws EXCEPT !.elapsed = @ + d]
    IN  IF auth_time_left(f.elapsed) THEN ws' = f ELSE ws_failed(f, "timeout")

\* await asyncio.wait_for(websocket.recv(), timeout=1.0) gives a frame after d
\* ticks, less than the timeout of the recv (bot.py:207-212, 216-218)
ws_auth_recv(e, d) ==
    /\ ws.pc = "auth_recv"
    /\ d < recv_timeout * TicksPerSecond
    /\ IF ~e.json THEN ws_failed(ws, "frame")
       ELSE IF is_confirmation(e)
       THEN ws' = [ws EXCEPT !.pc = "live", !.elapsed = 0, !.failures = 0,
                             !.confirmed = e.event = "hello",
                             !.late = ws.elapsed + d > auth_timeout * TicksPerSecond]
       ELSE auth_goes_on(d)
    /\ boundary' = NoCall
    /\ UNCHANGED <<storage, dialog_states, temp_data, conversation_history, user_sessions,
                   user_contexts, mcp_url, ex, ncalls, last, mcp, response, server_process,
                   stop, running, main, boot>>

\* The recv times out after recv_timeout seconds (bot.py:214-215)
ws_auth_recv_timeout ==
    /\ ws.pc = "auth_recv"
    /\ auth_goes_on(recv_timeout * TicksPerSecond)
    /\ boundary' = NoCall
    /\ UNCHANGED <<storage, dialog_states, temp_data, conversation_history, user_sessions,
                   user_contexts, mcp_url, ex, ncalls, last, mcp, response, server_process,
                   stop, running, main, boot>>

\* The recv raises: the connection is closed (bot.py:216-218)
ws_auth_recv_raises ==
    /\ ws.pc = "auth_recv"
    /\ ws_failed(ws, "closed")
    /\ boundary' = NoCall
    /\ UNCHANGED <<storage, dialog_states, temp_data, conversation_history, user_sessions,
                   user_contexts, mcp_url, ex, ncalls, last, mcp, response, server_process,
                   stop, running, main, boot>>

\* await asyncio.sleep(5) is over (bot.py:183, 187)
ws_sleep_over ==
    /\ ws.pc = "sleep"
    /\ ws_again(ws)
    /\ boundary' = NoCall
    /\ UNCHANGED <<storage, dialog_states, temp_data, conversation_history, user_sessions,
                   user_contexts, mcp_url, ex, ncalls, last, mcp, response, server_process,
                   stop, running, main, boot>>

\* `async for message in websocket` gives the next frame: the loop is left if
\* the bot is not running; else _handle_websocket_message runs up to the
\* request get_user("me") of _handle_post_event, or to its end for a frame that
\* is not a post (bot.py:175-178, 222-260)
ws_recv(e) ==
    /\ ws.pc = "live"
    /\ ws.arrived < MaxEvents
    /\ LET f == [ws EXCEPT !.arrived = @ + 1]
       IN  IF ~running THEN ws_again(f)
           ELSE IF e.json /\ e.event = "posted" /\ e.has_post
           THEN ws' = [f EXCEPT !.pc = "get_me", !.event = e]
           ELSE ws_live(f)
    /\ boundary' = NoCall
    /\ UNCHANGED <<storage, dialog_states, temp_data, conversation_history, user_sessions,
                   user_contexts, mcp_url, ex, ncalls, last, mcp, response, server_process,
                   stop, running, main, boot>>

\* The connection ends while the message loop waits: with an error the iterator
\* raises ConnectionClosed; after a clean close of the peer the iterator of
\* the websockets library just ends, the `async with` is left without an
\* exception and the while loop goes round at once (bot.py:175-183)
ws_closed(clean) ==
    /\ ws.pc = "live"
    /\ IF clean THEN ws_again([ws EXCEPT !.error = ""]) ELSE ws_failed(ws, "closed")
    /\ boundary' = NoCall
    /\ UNCHANGED <<storage, dialog_states, temp_data, conversation_history, user_sessions,
                   user_contexts, mcp_url, ex, ncalls, last, mcp, response, server_process,
                   stop, running, main, boot>>

\* self.driver.users.get_user("me") returns or raises; on return the author is
\* compared with the bot, handle_post strips the message, and the request
\* get_channel is made (bot.py:260-289)
ws_get_me(r) ==
    /\ ws.pc = "get_me"
    /\ LET e == ws.event
       IN  IF r = "raise" \/ e.user_id = bot_user_id
              \/ ~Truthy(strip(e.message)) \/ e.user_id = ""
           THEN ws_live(ws)
           ELSE ws' = [ws EXCEPT !.pc = "get_channel"]
    /\ boundary' = NoCall
    /\ UNCHANGED <<storage, dialog_states, temp_data, conversation_history, user_sessions,
                   user_contexts, mcp_url, ex, ncalls, last, mcp, response, server_process,
                   stop, running, main, boot>>

\* self.driver.channels.get_channel(channel_id) returns or raises; for a direct
\* channel the request get_user follows (bot.py:289-295)
ws_get_channel(r) ==
    /\ ws.pc = "get_channel"
    /\ IF r = "raise" \/ ~is_direct(ws.event.channel_type) THEN ws_live(ws)
       ELSE ws' = [ws EXCEPT !.pc = "get_user"]
    /\ boundary' = NoCall
    /\ UNCHANGED <<storage, dialog_states, temp_data, conversation_history, user_sessions,
                   user_contexts, mcp_url, ex, ncalls, last, mcp, response, server_process,
                   stop, running, main, boot>>

\* self.driver.users.get_user(user_id) returns or raises; on return
\* handle_message(user_id, message) is called, which makes the coroutine, and
\* run_until_complete is to run it and create_post to send its result; the
\* exception of either is logged (bot.py:295-325)
ws_get_user(r) ==
    /\ ws.pc = "get_user"
    /\ IF r = "raise" THEN ws_live(ws)
       ELSE LET called == [ws EXCEPT !.forwarded = Append(@, ws.arrived)]
            IN  IF run_until_complete(TRUE) = "RuntimeError" THEN ws_live(called)
                ELSE ws_live([called EXCEPT !.started = Append(@, ws.arrived),
                                            !.posted = Append(@, ws.arrived)])
    /\ boundary' = NoCall
    /\ UNCHANGED <<storage, dialog_states, temp_data, conversation_history, user_sessions,
                   user_contexts, mcp_url, ex, ncalls, last, mcp, response, server_process,
                   stop, running, main, boot>>

\* SIGTERM or SIGINT: the handler creates the task of stop (bot.py:345-348),
\* which runs when the event loop's thread is free: running is cleared, and
\* stop_server, with no session to close, clears the maps and terminates the
\* server process without an await (bot.py:361-378, mcp_client.py:150-176)
bot_stop(w) ==
    /\ main.pc = "serving"
    /\ running
    /\ ~Blocked
    /\ stop.pc = "idle"
    /\ DOMAIN user_sessions = {} /\ DOMAIN user_contexts = {}
    /\ running' = FALSE
    /\ server_process' = terminate(server_process, w)
    /\ stop' = [stop EXCEPT !.pc = "done"]
    /\ boundary' = NoCall
    /\ UNCHANGED <<storage, dialog_states, temp_data, conversation_history, user_sessions,
                   user_contexts, mcp_url, ex, ncalls, last, mcp, response, main, boot, ws>>

\* The task of stop is suspended at `await ...__aexit__(None, None, None)`
\* (mcp_client.py:155, 161)
StopSuspended == stop.pc \in {"sessions", "contexts"} /\ stop.left # {}

\* `while self.running: await asyncio.sleep(1)` finds running cleared: the stop
\* call of the finally clause returns at its first test (bot.py:363-364), start
\* returns, and asyncio.run cancels the tasks that are left: CancelledError is
\* raised at the await of each, and `except Exception` does not catch it
\* (bot.py:351-359, 385)
main_returns ==
    /\ main.pc = "serving"
    /\ ~running
    /\ ~Blocked
    /\ stop.pc \in {"idle", "done"} \/ StopSuspended
    /\ main' = [main EXCEPT !.pc = "returned"]
    /\ ws' = IF ws.pc = "ended" THEN ws ELSE [ws EXCEPT !.pc = "cancelled"]
    /\ stop' = IF StopSuspended THEN [stop EXCEPT !.pc = "cancelled"] ELSE stop
    /\ boundary' = NoCall
    /\ UNCHANGED <<storage, dialog_states, temp_data, conversation_history, user_sessions,
                   user_contexts, mcp_url, ex, ncalls, last, mcp, response, server_process,
                   running, boot>>

\* SIGTERM or SIGINT while sessions are cached: the task of stop clears running
\* and enters stop_server, which lists the sessions and suspends at the first
\* __aexit__ (bot.py:345-348, 361-371, mcp_client.py:153-155)
bot_stop_begin ==
    /\ main.pc = "serving"
    /\ running
    /\ ~Blocked
    /\ stop.pc = "idle"
    /\ DOMAIN user_sessions # {}
    /\ running' = FALSE
    /\ stop' = [stop EXCEPT !.pc = "sessions", !.left = DOMAIN user_sessions,
                            !.sessions = DOMAIN user_sessions]
    /\ boundary' = NoCall
    /\ UNCHANGED <<storage, dialog_states, temp_data, conversation_history, user_sessions,
                   user_contexts, mcp_url, ex, ncalls, last, mcp, response, server_process,
                   main, boot, ws>>

----------------------------------------------------------------------------
(* MCPClient._get_or_create_session called by several coroutines *)

\* The coroutines that call _get_or_create_session
Callers == {"c1", "c2", "c3"}

\* The frame of a caller before its call. user is the key it asks for; opened
\* says that its context.__aenter__() has returned; outcome is "cached" (the
\* map held the key), "created" (the handshake went through and the maps were
\* written) or "raised"
LookupIdle ==
    [pc |-> "idle", user |-> NoUser, auth_headers |-> None, session |-> NoSession,
     opened |-> FALSE, outcome |-> "", error |-> ""]

\* Caller c calls _get_or_create_session(k, auth_headers) with the headers of
\* k: the lookup in the map and the test of the endpoint's address, up to the
\* first await (mcp_client.py:101-122)
session_lookup(c, k) ==
    /\ mcp[c].pc = "idle"
    /\ mcp[c].outcome = ""
    /\ LET f == [mcp[c] EXCEPT !.user = k,
                               !.auth_headers =
                                   auth_header(get_user_credentials(storage, k))]
       IN  mcp' = [mcp EXCEPT ![c] =
                     IF cache_hit(user_sessions, k, f.auth_headers)
                     THEN [f EXCEPT !.outcome = "cached", !.session = user_sessions[k]]
                     ELSE IF ~Truthy(mcp_url)
                     THEN [f EXCEPT !.outcome = "raised", !.error = "RuntimeError"]
                     ELSE [f EXCEPT !.pc = "enter_context"]]
    /\ boundary' = NoCall
    /\ UNCHANGED <<storage, dialog_states, temp_data, conversation_history, user_sessions,
                   user_contexts, mcp_url, ex, ncalls, last, response, server_process,
                   stop>>
    /\ UNCHANGED bot_vars

\* await context.__aenter__() returns or raises (mcp_client.py:122, 146-148)
session_enter_context(c, r) ==
    /\ mcp[c].pc = "enter_context"
    /\ mcp' = [mcp EXCEPT ![c] =
                 IF r = "ok" THEN [@ EXCEPT !.pc = "enter_session", !.opened = TRUE]
                 ELSE [@ EXCEPT !.pc = "idle", !.outcome = "raised",
                                !.error = "enter_context"]]
    /\ boundary' = NoCall
    /\ UNCHANGED <<storage, dialog_states, temp_data, conversation_history, user_sessions,
                   user_contexts, mcp_url, ex, ncalls, last, response, server_process,
                   stop>>
    /\ UNCHANGED bot_vars

\* await session.__aenter__() returns or raises (mcp_client.py:127-128, 146-148)
session_enter_session(c, r) ==
    /\ mcp[c].pc = "enter_session"
    /\ mcp' = [mcp EXCEPT ![c] =
                 IF r = "ok" THEN [@ EXCEPT !.pc = "initialize"]
                 ELSE [@ EXCEPT !.pc = "idle", !.outcome = "raised",
                                !.error = "enter_session"]]
    /\ boundary' = NoCall
    /\ UNCHANGED <<storage, dialog_states, temp_data, conversation_history, user_sessions,
                   user_contexts, mcp_url, ex, ncalls, last, response, server_process,
                   stop>>
    /\ UNCHANGED bot_vars

\* await session.initialize() returns, and both maps are written under the key
\* without a second lookup, or it raises (mcp_client.py:133-148)
session_initialize(c, r) ==
    /\ mcp[c].pc = "initialize"
    /\ LET handle == [headers |-> mcp[c].auth_headers]
           k == mcp[c].user
       IN  IF handshake_caches(r)
           THEN /\ user_sessions' = Put(user_sessions, k, handle)
                /\ user_contexts' = Put(user_contexts, k, handle)
                /\ mcp' = [mcp EXCEPT ![c] = [@ EXCEPT !.pc = "idle", !.outcome = "created",
                                                       !.session = handle]]
           ELSE /\ mcp' = [mcp EXCEPT ![c] = [@ EXCEPT !.pc = "idle", !.outcome = "raised",
                                                       !.error = "initialize"]]
                /\ UNCHANGED <<user_sessions, user_contexts>>
    /\ boundary' = NoCall
    /\ UNCHANGED <<storage, dialog_states, temp_data, conversation_history, mcp_url, ex,
                   ncalls, last, response, server_process, stop>>
    /\ UNCHANGED bot_vars

----------------------------------------------------------------------------
(* Storage called directly *)

\* storage.has_jira_credentials(u) is called; last holds its value or its
\* exception, boundary the decryption it ran
storage_has(u) ==
    /\ ncalls < MaxStorageCalls
    /\ LET r == call_has_jira_credentials(storage, u)
       IN  /\ last' = Returned(ncalls + 1, u, <<"has_jira_credentials">>, DialogState(u),
                               Len(History(u)),
                               IF r.raised # "" THEN None
                               ELSE IF r.value THEN <<"True">> ELSE <<"False">>,
                               r.raised)
           /\ boundary' = IF r.decrypts > 0
                          THEN [kind |-> "decrypt", user |-> u, name |-> ""]
                          ELSE NoCall
    /\ ncalls' = ncalls + 1
    /\ UNCHANGED <<storage, dialog_states, temp_data, conversation_history, user_sessions,
                   user_contexts, mcp_url, ex, mcp, response, server_process, stop>>
    /\ UNCHANGED bot_vars

\* storage.save_user_credentials(u, jira_username=..., jira_password=...) is called
storage_save(u, jira_username, jira_password) ==
    /\ ncalls < MaxStorageCalls
    /\ storage' = save_user_credentials(storage, u, jira_username, jira_password)
    /\ last' = Returned(ncalls + 1, u, <<"save_user_credentials">>, DialogState(u),
                        Len(History(u)), None, "")
    /\ boundary' = NoCall
    /\ ncalls' = ncalls + 1
    /\ UNCHANGED <<dialog_states, temp_data, conversation_history, user_sessions,
                   user_contexts, mcp_url, ex, mcp, response, server_process, stop>>
    /\ UNCHANGED bot_vars

----------------------------------------------------------------------------
(* Specifications *)

\* The table a process finds in its database file: each user has no row, or the
\* row an earlier successful registration wrote
StoredRow == Row(M_maria, _encrypt(M_secret), None, None)

\* MessageHandlers and MCPClient as their constructors leave them, with `table`
\* in the database file
Constructed(table) ==
    /\ storage = table
    /\ dialog_states = [u \in {} |-> DIALOG_STATE_NONE]
    /\ temp_data = [u \in {} |-> [username |-> None]]
    /\ conversation_history = [u \in {} |-> <<>>]
    /\ user_sessions = [u \in {} |-> [headers |-> None]]
    /\ user_contexts = [u \in {} |-> [headers |-> None]]
    /\ ex = [u \in Users |-> Idle]
    /\ ncalls = 0
    /\ last = Returned(0, "", <<>>, DIALOG_STATE_NONE, 0, None, "")
    /\ boundary = NoCall
    /\ mcp = [c \in Users \cup {NoUser} |-> McpIdle]
    /\ response = [u \in Users |-> NoResponse]
    /\ stop = StopIdle

\* start_server has returned after its first probe, driver.login() too, and
\* start has set running and created the websocket task, whose frame is `frame`
Started(frame) ==
    /\ mcp_url = MCP_URL
    /\ server_process = [handle |-> TRUE, state |-> "running"]
    /\ running = TRUE
    /\ main = [pc |-> "serving"]
    /\ boot = [BootIdle EXCEPT !.attempts = 1, !.calls = 1, !.launched = 1,
                               !.healthy = TRUE, !.outcome = "returned"]
    /\ ws = frame

\* The state in which handle_message is called, with `table` in the database
\* file
InitTable(table) ==
    /\ Constructed(table)
    /\ Started([WsNone EXCEPT !.pc = "live", !.sent = TRUE, !.confirmed = TRUE])

InitWith(registered) == InitTable([u \in registered |-> StoredRow])

Init == \E registered \in SUBSET Users : InitWith(registered)

\* MattermostBot._connect_websocket awaits the handling of one event before it
\* reads the next (bot.py:174-178): a message is handled when no exchange is running
NoExchange == \A v \in Users : ex[v].pc = "idle"

\* Spec: both users, the dialog, the commands and exchanges whose capability
\* calls succeed
Next ==
    \/ \E u \in Users, m \in Messages :
          ncalls < MaxCalls /\ NoExchange /\ handle_message(u, m)
    \/ \E u \in Users, h \in Handshakes, r \in ListOutcomes : mcp_list_tools(u, h, r)
    \/ \E u \in Users, c \in {O_answer, O_one} : llm_chat(u, c)
    \/ \E u \in Users : llm_chat_raises(u)
    \/ \E u \in Users, h \in Handshakes : mcp_call_tool(u, h, "result")

Spec == Init /\ [][Next]_vars

\* SpecLoop: the exchanges of one registered user, under every model output and
\* every outcome of a capability call
InitLoop == InitWith({"u1"})

NextLoop ==
    \/ ncalls < MaxLoopCalls /\ NoExchange /\ handle_message("u1", M_maria)
    \/ \E h \in Handshakes, r \in ListOutcomes : mcp_list_tools("u1", h, r)
    \/ \E c \in LLMOutputs : llm_chat("u1", c)
    \/ llm_chat_raises("u1")
    \/ \E h \in Handshakes, r \in ToolOutcomes : mcp_call_tool("u1", h, r)

SpecLoop == InitLoop /\ [][NextLoop]_vars

\* SpecHistory: many exchanges and resets of one registered user, each exchange
\* answered by the model at once
InitHistory == InitWith({"u1"})

NextHistory ==
    \/ \E m \in {M_maria, M_secret, M_clear} :
          ncalls < MaxHistoryCalls /\ NoExchange /\ handle_message("u1", m)
    \/ mcp_list_tools("u1", "ok", "tools")
    \/ llm_chat("u1", O_answer)

SpecHistory == InitHistory /\ [][NextHistory]_vars

\* SpecFilter: the exchanges of one registered user with a model that asks for
\* capabilities the manifest does not hold
InitFilter == InitWith({"u1"})

NextFilter ==
    \/ ncalls < MaxFilterCalls /\ NoExchange /\ handle_message("u1", M_maria)
    \/ mcp_list_tools("u1", "ok", "tools")
    \/ \E c \in {O_answer, O_two, O_unknown, O_mixed} : llm_chat("u1", c)
    \/ \E r \in ToolOutcomes : mcp_call_tool("u1", "ok", r)

SpecFilter == InitFilter /\ [][NextFilter]_vars

\* SpecMalformed: the exchanges of SpecFilter with a language model whose output
\* holds a descriptor between whose braces there is no JSON
NextMalformed ==
    \/ ncalls < MaxFilterCalls /\ NoExchange /\ handle_message("u1", M_maria)
    \/ mcp_list_tools("u1", "ok", "tools")
    \/ \E c \in {O_answer, O_mixed, O_garbled, O_only_bad} : llm_chat("u1", c)
    \/ \E r \in ToolOutcomes : mcp_call_tool("u1", "ok", r)

SpecMalformed == InitFilter /\ [][NextMalformed]_vars

\* SpecSessions: MCPClient step by step. Both users are registered, with different
\* Jira accounts; their exchanges interleave at every await, and stop_server runs
\* beside them (bot.py:341-348 starts it as a task of its own). The model asks for
\* a capability in the first round of an exchange at most.
InitSessions ==
    InitTable([u \in Users |->
                 Row(IF u = "u1" THEN M_maria ELSE M_bob, _encrypt(M_secret), None, None)])

NextSessions ==
    \/ \E u \in Users :
          ncalls < MaxSessionCalls /\ stop.pc = "idle" /\ handle_message(u, M_maria)
    \/ \E u \in Users : stop.pc # "done" /\ get_session(u)
    \/ \E u \in Users, r \in Handshakes : stop.pc # "done" /\ enter_context(u, r)
    \/ \E u \in Users, r \in Handshakes : stop.pc # "done" /\ enter_session(u, r)
    \/ \E u \in Users, r \in Handshakes : stop.pc # "done" /\ initialize_session(u, r)
    \/ \E u \in Users, r \in ListOutcomes : stop.pc # "done" /\ session_list_tools(u, r)
    \/ \E u \in Users, r \in ToolOutcomes : stop.pc # "done" /\ session_call_tool(u, r)
    \/ \E u \in Users, c \in {O_answer, O_one} :
          /\ stop.pc # "done"
          /\ c = O_one => ex[u].iteration = 0
          /\ llm_chat(u, c)
    \/ stop.pc = "idle" /\ list_tools_no_user
    \/ stop_server_begin
    \/ \E k \in Users, r \in CloseOutcomes : stop_close_session(k, r)
    \/ stop_contexts_begin
    \/ \E k \in Users, r \in CloseOutcomes : stop_close_context(k, r)
    \/ \E w \in WaitOutcomes : stop_terminate(w)

SpecSessions == InitSessions /\ [][NextSessions]_vars

\* SpecStart: the start of the process, from the first start_server call of
\* initialize on, with further start_server calls and a shutdown of the client
InitStart ==
    /\ Constructed([u \in {} |-> StoredRow])
    /\ mcp_url = None
    /\ server_process = NoProcess
    /\ running = FALSE
    /\ main = [pc |-> "initialize"]
    /\ boot = BootIdle
    /\ ws = WsNone

NextStart ==
    \/ \E p \in PopenOutcomes : start_server_call(p)
    \/ \E r \in ProbeOutcomes : probe(r)
    \/ probe_sleep
    \/ \E r \in LoginOutcomes : driver_login(r)
    \/ main.pc = "serving" /\ boot.pc = "idle" /\ stop_server_begin
    \/ stop_contexts_begin
    \/ \E w \in WaitOutcomes : stop_terminate(w)

SpecStart == InitStart /\ [][NextStart]_vars

\* SpecIngest: the websocket task from its first connection on, the frames it
\* takes, and the shutdown by a signal
InitIngest ==
    /\ Constructed([u \in {} |-> StoredRow])
    /\ Started(WsConnecting)

NextIngest ==
    \/ \E r \in CallOutcomes : ws_connect(r)
    \/ \E r \in CallOutcomes : ws_auth_send(r)
    \/ \E e \in Events, d \in 0 .. recv_timeout * TicksPerSecond : ws_auth_recv(e, d)
    \/ ws_auth_recv_timeout
    \/ ws_auth_recv_raises
    \/ ws_sleep_over
    \/ \E e \in Events : ws_recv(e)
    \/ \E clean \in BOOLEAN : ws_closed(clean)
    \/ \E r \in CallOutcomes : ws_get_me(r)
    \/ \E r \in CallOutcomes : ws_get_channel(r)
    \/ \E r \in CallOutcomes : ws_get_user(r)
    \/ \E w \in WaitOutcomes : bot_stop(w)
    \/ main_returns

SpecIngest == InitIngest /\ [][NextIngest]_vars

\* The timer of the reconnect delay fires
SpecIngestFair == SpecIngest /\ WF_vars(ws_sleep_over)

\* SpecInterleave: handle_message calls of both users under every interleaving.
\* u1 is registered, u2 is registered with another account or not at all; a call
\* for one user is made while the exchange of the other is suspended at an await
\* (handlers.py:216, 266, 328), so commands and the steps of the registration
\* dialog run between the steps of a query exchange, and every handshake, listing,
\* capability call and model call can fail.
InitInterleave ==
    \E registered \in {{"u1"}, Users} :
        InitTable([u \in registered |->
                     Row(IF u = "u1" THEN M_maria ELSE M_bob, _encrypt(M_secret),
                         None, None)])

NextInterleave ==
    \/ \E u \in Users, m \in {M_help, M_clear, M_maria, M_secret} :
          ncalls < MaxInterleaveCalls /\ handle_message(u, m)
    \/ \E u \in Users : get_session(u)
    \/ \E u \in Users, r \in Handshakes : enter_context(u, r)
    \/ \E u \in Users, r \in Handshakes : enter_session(u, r)
    \/ \E u \in Users, r \in Handshakes : initialize_session(u, r)
    \/ \E u \in Users, r \in ListOutcomes : session_list_tools(u, r)
    \/ \E u \in Users, r \in ToolOutcomes : session_call_tool(u, r)
    \/ \E u \in Users, c \in {O_answer, O_one} :
          /\ c = O_one => ex[u].iteration = 0
          /\ llm_chat(u, c)
    \/ \E u \in Users : llm_chat_raises(u)

SpecInterleave == InitInterleave /\ [][NextInterleave]_vars

\* SpecStorage: Storage called directly on a database file of any content: a user
\* has no row, or a row whose secret is NULL, empty, a token of this key, or a
\* text that is no token of this key (a damaged file, a changed ENCRYPTION_KEY)
T_corrupt == <<"c", "o", "r", "r", "u", "p", "t">>

StoredUsernames == {None, <<>>, M_maria}

StoredSecrets == {None, <<>>, _encrypt(M_secret), T_corrupt}

InitStorage ==
    \E present \in SUBSET Users :
        \E table \in [present -> {Row(ju, jp, None, None) :
                                     ju \in StoredUsernames, jp \in StoredSecrets}] :
            InitTable(table)

NextStorage ==
    \/ \E u \in Users : storage_has(u)
    \/ \E u \in Users, p \in {None, <<>>, M_secret} : storage_save(u, M_maria, p)

SpecStorage == InitStorage /\ [][NextStorage]_vars

\* SpecShutdown: the bot is serving, with the sessions of some users cached by
\* earlier exchanges, when a termination signal arrives; the task of stop, the
\* main task and the websocket task take their steps in every order the one
\* event loop allows
AccountsTable ==
    [u \in Users |->
        Row(IF u = "u1" THEN M_maria ELSE M_bob, _encrypt(M_secret), None, None)]

\* The entries _get_or_create_session wrote for the users of `cached`
\* (mcp_client.py:141-142)
Cached(table, cached) ==
    [k \in cached |-> [headers |-> auth_header(get_user_credentials(table, k))]]

\* MessageHandlers and MCPClient with `table` in the database file, the sessions
\* of the users of `cached` in the maps, and the MCPClient calls of `frames`
ConstructedWith(table, cached, frames) ==
    /\ storage = table
    /\ dialog_states = [u \in {} |-> DIALOG_STATE_NONE]
    /\ temp_data = [u \in {} |-> [username |-> None]]
    /\ conversation_history = [u \in {} |-> <<>>]
    /\ user_sessions = Cached(table, cached)
    /\ user_contexts = Cached(table, cached)
    /\ ex = [u \in Users |-> Idle]
    /\ ncalls = 0
    /\ last = Returned(0, "", <<>>, DIALOG_STATE_NONE, 0, None, "")
    /\ boundary = NoCall
    /\ mcp = frames
    /\ response = [u \in Users |-> NoResponse]
    /\ stop = StopIdle

InitShutdown ==
    \E cached \in SUBSET Users :
        /\ ConstructedWith(AccountsTable, cached, [c \in Users \cup {NoUser} |-> McpIdle])
        /\ Started([WsNone EXCEPT !.pc = "live", !.sent = TRUE, !.confirmed = TRUE])

NextShutdown ==
    \/ \E w \in WaitOutcomes : bot_stop(w)
    \/ bot_stop_begin
    \/ \E k \in Users, r \in CloseOutcomes : ~Blocked /\ stop_close_session(k, r)
    \/ stop_contexts_begin
    \/ \E k \in Users, r \in CloseOutcomes : ~Blocked /\ stop_close_context(k, r)
    \/ \E w \in WaitOutcomes : stop_terminate(w)
    \/ main_returns
    \/ \E e \in {E_direct, E_typing} : ws_recv(e)
    \/ \E r \in CallOutcomes : ws_get_me(r)
    \/ \E r \in CallOutcomes : ws_get_channel(r)
    \/ \E r \in CallOutcomes : ws_get_user(r)

SpecShutdown == InitShutdown /\ [][NextShutdown]_vars

\* SpecRace: _get_or_create_session called by several coroutines, for the same
\* user or for different ones, their steps interleaved at every await; every
\* step of the handshake returns or raises
InitRace ==
    /\ ConstructedWith(AccountsTable, {}, [c \in Callers |-> LookupIdle])
    /\ Started([WsNone EXCEPT !.pc = "live", !.sent = TRUE, !.confirmed = TRUE])

NextRace ==
    \/ \E c \in Callers, k \in Users : session_lookup(c, k)
    \/ \E c \in Callers, r \in Handshakes : session_enter_context(c, r)
    \/ \E c \in Callers, r \in Handshakes : session_enter_session(c, r)
    \/ \E c \in Callers, r \in Handshakes : session_initialize(c, r)

SpecRace == InitRace /\ [][NextRace]_vars

\* SpecAfterStop: _get_or_create_session called by two coroutines before, during
\* and after a run of stop_server
InitAfterStop == InitRace

NextAfterStop ==
    \/ \E c \in {"c1", "c2"}, k \in Users : session_lookup(c, k)
    \/ \E c \in {"c1", "c2"}, r \in Handshakes : session_enter_context(c, r)
    \/ \E c \in {"c1", "c2"}, r \in Handshakes : session_enter_session(c, r)
    \/ \E c \in {"c1", "c2"}, r \in Handshakes : session_initialize(c, r)
    \/ stop_server_begin
    \/ \E k \in Users, r \in CloseOutcomes : stop_close_session(k, r)
    \/ stop_contexts_begin
    \/ \E k \in Users, r \in CloseOutcomes : stop_close_context(k, r)
    \/ \E w \in WaitOutcomes : stop_terminate(w)

SpecAfterStop == InitAfterStop /\ [][NextAfterStop]_vars


----------------------------------------------------------------------------
(* Properties *)

\* The message is one of the help words, compared as handle_message compares it
IsHelpToken(m) == lower(strip(m)) \in HELP_COMMANDS

\* The message is one of the reset words
IsResetToken(m) == lower(strip(m)) \in CLEAR_COMMANDS

IsCommand(m) == IsHelpToken(m) \/ IsResetToken(m)

\* This step is the return of a handle_message call of u
ReturnsTo(u) == last'.n # last.n /\ last'.user = u

\* The external calls that serve a query
GatewayCalls == {"list_tools", "chat", "call_tool"}

\* u has no credential and no dialog when the returned call was entered
EnteredUnregistered(u) ==
    /\ ~has_jira_credentials(storage, u)
    /\ last'.state = DIALOG_STATE_NONE

\* The returned call did nothing but ask for the login
OnlyPrompted(u) ==
    /\ last'.reply = REGISTRATION_PROMPT
    /\ last'.raised = ""
    /\ dialog_states' = Put(dialog_states, u, DIALOG_STATE_WAITING_USERNAME)
    /\ boundary' = NoCall
    /\ UNCHANGED <<storage, conversation_history, user_sessions, user_contexts>>

NoCallWhileUngated ==
    boundary.kind \in GatewayCalls =>
        /\ has_jira_credentials(storage, boundary.user)
        /\ DialogState(boundary.user) = DIALOG_STATE_NONE

\* C1, as the code has it: no model, capability-list or capability call is made
\* for a user who has no credential or whose dialog is open, and a message that
\* is not a command word, from a user without credential and without dialog,
\* only emits the registration prompt and opens the dialog at waiting_username.
AccessGated ==
    /\ [] NoCallWhileUngated
    /\ [][\A u \in Users :
            ReturnsTo(u) /\ EnteredUnregistered(u) /\ ~IsCommand(last'.message)
                => OnlyPrompted(u)]_vars

\* C1, as stated: every message of such a user, command words included, only
\* emits the prompt and opens the dialog.
AccessGatedAnyMessage ==
    /\ [] NoCallWhileUngated
    /\ [][\A u \in Users :
            ReturnsTo(u) /\ EnteredUnregistered(u) => OnlyPrompted(u)]_vars

\* A user without credential was prompted after another user's query went out
PromptedBesideServedUser ==
    /\ last.reply = REGISTRATION_PROMPT
    /\ last.state = DIALOG_STATE_NONE
    /\ ~has_jira_credentials(storage, last.user)
    /\ DialogState(last.user) = DIALOG_STATE_WAITING_USERNAME
    /\ \E v \in DOMAIN user_sessions : has_jira_credentials(storage, v)

\* The returned call of u was a password step whose pair the validator accepts
ValidatedStep(u) ==
    /\ ReturnsTo(u)
    /\ last'.state = DIALOG_STATE_WAITING_PASSWORD
    /\ u \in DOMAIN temp_data
    /\ validate_jira_credentials(temp_data[u].username, strip(last'.message))[1]

\* C2: a credential of u comes into being only in the step that follows an
\* accepted validation of the pair u submitted; until then u has none.
CredentialOnlyAfterValidation ==
    [][\A u \in Users :
          (storage' # storage
             \/ (has_jira_credentials(storage', u) /\ ~has_jira_credentials(storage, u)))
          => ValidatedStep(u)]_vars

\* A user went through the login step and still has no credential
LoginGivenNoCredential ==
    \E u \in Users :
        /\ DialogState(u) = DIALOG_STATE_WAITING_PASSWORD
        /\ last.user = u /\ last.reply = PASSWORD_PROMPT
        /\ ~has_jira_credentials(storage, u)

\* The returned call of u is a password step with a pair the validator judges
\* as `accepted`
PasswordStep(u, accepted) ==
    /\ ReturnsTo(u)
    /\ last'.state = DIALOG_STATE_WAITING_PASSWORD
    /\ ~IsCommand(last'.message)
    /\ u \in DOMAIN temp_data
    /\ temp_data[u].username # None
    /\ validate_jira_credentials(temp_data[u].username, strip(last'.message))[1] = accepted

\* C3: a message in waiting_password whose pair the validator accepts persists
\* the credential, closes the dialog and is answered with the success message.
AcceptedPasswordRegisters ==
    [][\A u \in Users :
          PasswordStep(u, TRUE) =>
              /\ has_jira_credentials(storage', u)
              /\ get_user_credentials(storage', u).jira_username = temp_data[u].username
              /\ DialogState(u)' = DIALOG_STATE_NONE
              /\ last'.raised = ""
              /\ last'.reply = success_message]_vars

\* C4: a message in waiting_password whose pair the validator rejects sends the
\* dialog back to waiting_username, leaves the store alone and is answered with
\* the failure reason and the prompt for the login.
RejectedPasswordRestarts ==
    [][\A u \in Users :
          PasswordStep(u, FALSE) =>
              /\ DialogState(u)' = DIALOG_STATE_WAITING_USERNAME
              /\ storage' = storage
              /\ last'.raised = ""
              /\ last'.reply =
                    failure_message(
                        validate_jira_credentials(temp_data[u].username,
                                                  strip(last'.message))[2])]_vars

\* C5: a message in waiting_username that is not a command word is stored as
\* the candidate login, the dialog moves to waiting_password, no validation or
\* other external call is made and no credential is saved.
UsernameStepStoresCandidate ==
    [][\A u \in Users :
          ReturnsTo(u) /\ last'.state = DIALOG_STATE_WAITING_USERNAME
                       /\ ~IsCommand(last'.message)
          => /\ u \in DOMAIN temp_data'
             /\ temp_data'[u].username = last'.message
             /\ DialogState(u)' = DIALOG_STATE_WAITING_PASSWORD
             /\ last'.reply = PASSWORD_PROMPT
             /\ boundary' = NoCall
             /\ storage' = storage]_vars

\* The login "Maria" was given in waiting_username and is held as typed
CandidateHeld ==
    /\ last.state = DIALOG_STATE_WAITING_USERNAME
    /\ last.message = M_maria
    /\ last.reply = PASSWORD_PROMPT
    /\ temp_data[last.user].username = M_maria
    /\ DialogState(last.user) = DIALOG_STATE_WAITING_PASSWORD

\* The transitions of the registration dialog
DialogEdges ==
    { <<DIALOG_STATE_NONE, DIALOG_STATE_WAITING_USERNAME>>,
      <<DIALOG_STATE_WAITING_USERNAME, DIALOG_STATE_WAITING_PASSWORD>>,
      <<DIALOG_STATE_WAITING_PASSWORD, DIALOG_STATE_NONE>>,
      <<DIALOG_STATE_WAITING_PASSWORD, DIALOG_STATE_WAITING_USERNAME>> }

\* C6: the dialog state of every user is always one of the three states and
\* changes only along none -> waiting_username, waiting_username ->
\* waiting_password, waiting_password -> none, waiting_password -> waiting_username.
DialogMovesAlongEdges ==
    /\ [](\A u \in Users : DialogState(u) \in DialogStates)
    /\ [][\A u \in Users :
            DialogState(u)' # DialogState(u)
                => <<DialogState(u), DialogState(u)'>> \in DialogEdges]_vars

\* Both users are in the dialog, one at each of its open states
BothDialogStatesOpen ==
    \E u, v \in Users :
        /\ DialogState(u) = DIALOG_STATE_WAITING_USERNAME
        /\ DialogState(v) = DIALOG_STATE_WAITING_PASSWORD

\* C7: a help word, in any dialog state, is answered with the help text and
\* changes neither dialog state, scratch data, history, credential nor session.
HelpChangesNothing ==
    [][\A u \in Users :
          ReturnsTo(u) /\ IsHelpToken(last'.message)
          => /\ last'.reply = get_help_message
             /\ last'.raised = ""
             /\ boundary' = NoCall
             /\ UNCHANGED <<dialog_states, temp_data, conversation_history, storage,
                            user_sessions, user_contexts>>]_vars

\* Help was asked for in the middle of the dialog
HelpInsideDialog ==
    /\ IsHelpToken(last.message)
    /\ last.reply = get_help_message
    /\ last.state = DIALOG_STATE_WAITING_PASSWORD
    /\ DialogState(last.user) = DIALOG_STATE_WAITING_PASSWORD

\* C8: a reset word, in any dialog state, empties the history of the user and
\* changes neither dialog state, scratch data nor credential.
ResetEmptiesHistoryOnly ==
    [][\A u \in Users :
          ReturnsTo(u) /\ IsResetToken(last'.message)
          => /\ History(u)' = <<>>
             /\ last'.reply = CLEARED_MESSAGE
             /\ \A v \in Users \ {u} : History(v)' = History(v)
             /\ UNCHANGED <<dialog_states, temp_data, storage>>]_vars

\* A history that held turns was reset
FilledHistoryReset ==
    /\ IsResetToken(last.message)
    /\ last.reply = CLEARED_MESSAGE
    /\ last.hist0 > 0
    /\ History(last.user) = <<>>


\* The two turns an answered exchange adds to the history
ExchangeTurns ==
    << [role |-> "user", content |-> strip(last'.message)],
       [role |-> "assistant", content |-> last'.reply] >>

\* This step ends an exchange of u with an answer of the model loop
Answered(u) ==
    /\ ex[u].pc \in {"chat", "call_tool"}
    /\ ex'[u].pc = "idle"
    /\ ReturnsTo(u)
    /\ Prefix(last'.reply, 1) # Prefix(query_error_message(<<>>), 1)

\* C9: the history of a user never holds more than 20 turns; when an answered
\* exchange would make it longer the oldest turns are dropped, and what is kept
\* is the most recent 20 turns in their order.
HistoryKeepsLatestTwenty ==
    /\ [](\A u \in Users : Len(History(u)) <= 20)
    /\ [][\A u \in Users :
            /\ Answered(u) => History(u)' = LastN(History(u) \o ExchangeTurns, 20)
            /\ History(u)' # History(u) /\ History(u)' # <<>> => Answered(u)]_vars

\* An exchange was answered while the history already held 20 turns
OldestTurnsDropped ==
    /\ last.hist0 = 20
    /\ Len(History(last.user)) = 20
    /\ History(last.user)[20] = [role |-> "assistant", content |-> last.reply]
    /\ History(last.user)[19] = [role |-> "user", content |-> last.message]

\* The model calls made so far in the running exchange of u, the one under way
\* included
ModelCalls(u) == ex[u].llm_calls + (IF ex[u].pc = "chat" THEN 1 ELSE 0)

\* C10: an exchange makes at most 5 model calls, whatever the model answers, and
\* the round that follows the fifth call ends the exchange with an answer.
AtMostFiveModelCalls ==
    /\ [](\A u \in Users : ModelCalls(u) <= 5)
    /\ [][\A u \in Users :
            ex[u].llm_calls = 5 /\ ex'[u].pc # "call_tool"
                => /\ ex'[u].pc = "idle"
                   /\ ReturnsTo(u)
                   /\ last'.n = ex[u].n
                   /\ last'.raised = ""
                   /\ \/ last'.reply = TOO_MANY_ITERATIONS
                      \/ Prefix(last'.reply, Len(LIMIT_HEADER)) = LIMIT_HEADER]_vars

\* An exchange used all its rounds and was answered with the limit message
RoundsUsedUp ==
    /\ last.n > 0
    /\ \/ last.reply = TOO_MANY_ITERATIONS
       \/ Prefix(last.reply, Len(LIMIT_HEADER)) = LIMIT_HEADER


\* In this step a model call of u returned
ChatReturned(u) ==
    /\ ex[u].pc = "chat"
    /\ boundary'.kind = "chat" /\ boundary'.user = u
    /\ response'[u] # NoResponse

\* The pair an exchange of u that ends in this step with `answer` leaves in the
\* history of u
SavedPair(u, answer) ==
    << [role |-> "user", content |-> ex[u].query],
       [role |-> "assistant", content |-> answer] >>

\* This step ends the exchange of u with `answer`, saved as one pair
EndsWith(u, answer) ==
    /\ ex'[u].pc = "idle"
    /\ ReturnsTo(u)
    /\ last'.n = ex[u].n
    /\ last'.raised = ""
    /\ last'.reply = answer
    /\ History(u)' = LastN(History(u) \o SavedPair(u, answer), 20)

\* C11: a round whose model response carries no tool calls ends the exchange in
\* that round; the answer is the response text if it is not empty, else the
\* summary of the tool results gathered earlier in the exchange if there are
\* any, else the fallback message; one (user, assistant) pair with the query and
\* that answer is appended to the user's history.
TerminalRoundAnswers ==
    [][\A u \in Users :
          ChatReturned(u) /\ response'[u].tool_calls = <<>>
          => EndsWith(u,
                 IF response'[u].content # <<>> THEN response'[u].content
                 ELSE IF ex[u].all_tool_results # <<>>
                      THEN results_summary(RESULTS_HEADER, ex[u].all_tool_results)
                      ELSE NO_LLM_ANSWER)]_vars

\* A round without text and without tool calls, after a round whose tool call
\* succeeded, was answered with the summary
EmptyTextSummarised ==
    /\ response["u1"].manifest # <<>>
    /\ response["u1"].content = <<>> /\ response["u1"].tool_calls = <<>>
    /\ last.reply = results_summary(RESULTS_HEADER, << result_str("jira_search") >>)
    /\ History("u1") = << [role |-> "user", content |-> M_maria],
                          [role |-> "assistant", content |-> last.reply] >>

\* The results gathered in the exchange of u once this step's capability call is
\* through
ResultsAfterCall(u) ==
    ex[u].all_tool_results
    \o (IF mcp'[u].outcome = "returned" THEN << mcp'[u].result >> ELSE <<>>)

\* This step is the last capability call of the fifth round of u
FifthRoundDone(u) ==
    /\ ex[u].pc = "call_tool"
    /\ ex[u].llm_calls = 5
    /\ boundary'.kind = "call_tool" /\ boundary'.user = u
    /\ Len(ex[u].tool_results) + 1 = Len(ex[u].tool_calls)

\* C12: when all 5 rounds carried tool calls the exchange returns the summary of
\* the gathered tool results, or the fallback message if no tool call succeeded,
\* and the (user, assistant) pair is still appended to the user's history.
ExhaustedRoundsAnswer ==
    [][\A u \in Users :
          FifthRoundDone(u)
          => EndsWith(u,
                 IF ResultsAfterCall(u) # <<>>
                 THEN results_summary(LIMIT_HEADER, ResultsAfterCall(u))
                 ELSE TOO_MANY_ITERATIONS)]_vars

\* Five rounds of failing tool calls ended with the fallback, which was saved
FiveRoundsNoResult ==
    /\ last.reply = TOO_MANY_ITERATIONS
    /\ mcp["u1"].outcome = "raised"
    /\ History("u1") = << [role |-> "user", content |-> M_maria],
                          [role |-> "assistant", content |-> TOO_MANY_ITERATIONS] >>

\* Five rounds with a successful tool call ended with the summary at the limit
FiveRoundsSummarised ==
    /\ Prefix(last.reply, Len(LIMIT_HEADER)) = LIMIT_HEADER
    /\ Len(History("u1")) = 2
    /\ History("u1")[2].content = last.reply


\* In this step a capability call of the round of u returned or raised
CallStep(u) ==
    /\ ex[u].pc = "call_tool"
    /\ boundary'.kind = "call_tool" /\ boundary'.user = u

\* The turn that answers `call` after this step's invocation for u
AnswerTurn(u, call) ==
    [role |-> "tool",
     content |-> IF mcp'[u].outcome = "raised"
                 THEN <<"ERROR:", " ">> \o TOOL_EXCEPTION
                 ELSE result_str(call.name),
     tool_call_id |-> call.id,
     tool_calls |-> <<>>]

\* The turns of a finished round: the assistant's request and one answer per
\* call, in call order, each with the id of its call
RoundTurns(calls, answers) ==
    /\ Len(answers) = Len(calls)
    /\ \A i \in 1..Len(calls) :
          answers[i].role = "tool" /\ answers[i].tool_call_id = calls[i].id

\* C13: within a round every tool call the model asked for is invoked exactly
\* once, in call order; a failing invocation leaves exactly one placeholder turn
\* for that call, the remaining calls are still invoked and the exchange is not
\* aborted; the turns appended after the assistant's request are one per call, in
\* call order, each carrying the id of its call.
EveryCallAnsweredOnce ==
    [][\A u \in Users :
          CallStep(u) =>
            LET calls == ex[u].tool_calls
                k == Len(ex[u].tool_results) + 1
                answers == Append(ex[u].tool_results, AnswerTurn(u, calls[k]))
            IN  /\ k <= Len(calls)
                /\ boundary'.name = calls[k].name
                /\ mcp'[u].outcome \in {"returned", "raised"}
                /\ IF k < Len(calls)
                   THEN /\ ex'[u].pc = "call_tool"
                        /\ ex'[u].tool_calls = calls
                        /\ ex'[u].tool_results = answers
                   ELSE /\ RoundTurns(calls, answers)
                        /\ IF ex[u].llm_calls < 5
                           THEN /\ ex'[u].pc = "chat"
                                /\ ex'[u].messages =
                                      ex[u].messages
                                      \o << [role |-> "assistant",
                                             content |-> ex[u].content,
                                             tool_call_id |-> None,
                                             tool_calls |-> calls] >>
                                      \o answers
                           ELSE /\ ReturnsTo(u)
                                /\ last'.raised = ""
                                /\ Prefix(last'.reply, 1)
                                      # Prefix(query_error_message(<<>>), 1)]_vars

\* A round of two calls whose first call failed and whose second call succeeded
FailedCallThenNext ==
    LET m == ex["u1"].messages
        n == Len(m)
    IN  /\ ex["u1"].pc = "chat"
        /\ n >= 3
        /\ m[n - 2].role = "assistant" /\ Len(m[n - 2].tool_calls) = 2
        /\ m[n - 1] = [role |-> "tool", content |-> <<"ERROR:", " ">> \o TOOL_EXCEPTION,
                       tool_call_id |-> m[n - 2].tool_calls[1].id, tool_calls |-> <<>>]
        /\ m[n] = [role |-> "tool", content |-> result_str("jira_get_issue"),
                   tool_call_id |-> m[n - 2].tool_calls[2].id, tool_calls |-> <<>>]


\* The capability names of a manifest
ManifestNames(tools) == {tools[i] : i \in 1..Len(tools)}

\* The names of the well-formed call descriptors of a model output, in order
RECURSIVE DescriptorNames(_)
DescriptorNames(raw) ==
    IF raw = <<>> THEN <<>>
    ELSE (IF Head(raw).kind = "call" THEN << Head(raw).name >> ELSE <<>>)
         \o DescriptorNames(Tail(raw))

\* The names of a sequence of names that the manifest holds, in order
RECURSIVE KnownNames(_, _)
KnownNames(names, tools) ==
    IF names = <<>> THEN <<>>
    ELSE (IF Head(names) \in ManifestNames(tools) THEN << Head(names) >> ELSE <<>>)
         \o KnownNames(Tail(names), tools)

\* C14: a call descriptor whose capability name is not in the manifest passed
\* to the model call is dropped from the returned tool calls; no capability is
\* invoked under a name absent from the manifest of its exchange; a response
\* whose every descriptor is dropped is treated as carrying no tool calls.
UnknownNamesDropped ==
    [][\A u \in Users :
          /\ ChatReturned(u) =>
               LET r == response'[u]
               IN  /\ r.manifest = ex[u].tools
                   /\ [i \in 1..Len(r.tool_calls) |-> r.tool_calls[i].name]
                         = KnownNames(DescriptorNames(r.raw), ex[u].tools)
                   /\ r.tool_calls = <<>> => ex'[u].pc = "idle" /\ ReturnsTo(u)
          /\ CallStep(u) => boundary'.name \in ManifestNames(ex[u].tools)]_vars

\* A response with one unknown and one known capability led to the invocation
\* of the known one only
KnownCallInvokedAlone ==
    /\ response["u1"].raw = O_mixed
    /\ Len(response["u1"].tool_calls) = 1
    /\ boundary = [kind |-> "call_tool", user |-> "u1", name |-> "jira_get_issue"]

\* A response whose only descriptor names an unknown capability ended the
\* exchange without an invocation
UnknownCallEndsExchange ==
    /\ response["u1"].raw = O_unknown
    /\ response["u1"].tool_calls = <<>>
    /\ boundary.kind = "chat"
    /\ ex["u1"].pc = "idle"
    /\ last.reply = NO_LLM_ANSWER


\* The call of list_tools or call_tool of u that starts in this step, up to the
\* lookup of u's session
LookupStep(u) ==
    /\ ex[u].pc \in {"list_tools", "call_tool"}
    /\ mcp[u].pc = "idle"
    /\ mcp'[u] # mcp[u]

HandshakePcs == {"enter_context", "enter_session", "initialize"}

\* C15: a call for a user whose session is cached goes on with exactly the cached
\* handle, whatever headers it carries: it opens no transport, opens no session,
\* sends no initialize and leaves both maps as they are; a handshake is begun
\* only by a lookup that found no entry for the user.
CachedSessionReused ==
    [][\A u \in Users :
          /\ LookupStep(u) /\ session_key(u) \in DOMAIN user_sessions =>
                /\ mcp'[u].pc = "use"
                /\ mcp'[u].session = user_sessions[session_key(u)]
                /\ UNCHANGED <<user_sessions, user_contexts>>
          /\ mcp'[u].pc \in HandshakePcs /\ mcp[u].pc \notin HandshakePcs =>
                /\ LookupStep(u)
                /\ session_key(u) \notin DOMAIN user_sessions]_vars

\* A capability call of a user is about to run over the session that the
\* capability listing of the same exchange had cached
SecondCallOnCachedSession ==
    \E u \in Users :
        /\ mcp[u].pc = "use"
        /\ mcp[u].op = "call_tool"
        /\ session_key(u) \in DOMAIN user_sessions
        /\ mcp[u].session = user_sessions[session_key(u)]
        /\ ex[u].tools # <<>>


\* The step of the handshake that follows `pc` when the step at `pc` succeeds
NextHandshakePc(pc) ==
    CASE pc = "enter_context" -> "enter_session"
      [] pc = "enter_session" -> "initialize"
      [] pc = "initialize" -> "use"

\* C16: a handshake opens the transport, then the session, then sends initialize,
\* in that order and each once; the user is entered in both maps by the step in
\* which initialize succeeds and by no other; a step that fails ends the call
\* with that step's error (call_tool raises it) and leaves the user in neither
\* map.
HandshakeOrderedAndClean ==
    /\ [](\A u \in Users :
            mcp[u].pc \in HandshakePcs =>
                session_key(u) \notin DOMAIN user_sessions \cup DOMAIN user_contexts)
    /\ [][\A u \in Users :
            /\ mcp[u].pc \in HandshakePcs /\ mcp'[u] # mcp[u] =>
                  \/ /\ mcp'[u].pc = NextHandshakePc(mcp[u].pc)
                     /\ mcp'[u].error = ""
                     /\ IF mcp[u].pc = "initialize"
                        THEN /\ session_key(u) \in DOMAIN user_sessions'
                             /\ session_key(u) \in DOMAIN user_contexts'
                             /\ user_sessions'[session_key(u)].headers = mcp[u].auth_headers
                             /\ mcp'[u].session = user_sessions'[session_key(u)]
                        ELSE UNCHANGED <<user_sessions, user_contexts>>
                  \/ /\ mcp'[u].pc = "idle"
                     /\ mcp'[u].error = mcp[u].pc
                     /\ mcp'[u].op = "call_tool" => mcp'[u].outcome = "raised"
                     /\ mcp'[u].result = <<>>
                     /\ session_key(u) \notin DOMAIN user_sessions'
                     /\ session_key(u) \notin DOMAIN user_contexts'
            /\ session_key(u) \in DOMAIN user_sessions' \ DOMAIN user_sessions =>
                  mcp[u].pc = "initialize"]_vars

\* initialize failed for a user after the transport and the session had been
\* opened, the call ended with that error, and the user is in neither map
InitializeFailedNothingCached ==
    \E u \in Users :
        /\ mcp[u].pc = "idle"
        /\ mcp[u].error = "initialize"
        /\ session_key(u) \notin DOMAIN user_sessions \cup DOMAIN user_contexts
        /\ last.user = u
        /\ last.reply = NO_TOOLS_MESSAGE


\* The headers _handle_user_query supplies for a user (handlers.py:197-209)
HeadersFor(u) == auth_header(get_user_credentials(storage, u))

\* A capability of u is sent over a session in this step
InvokeStep(u) ==
    /\ mcp[u].pc = "use"
    /\ mcp[u].op = "call_tool"
    /\ mcp'[u].pc = "idle"

\* C17: whatever the interleaving of two users' calls, each entry of the session
\* map is keyed by a user and was opened with the headers supplied for that
\* user, and a capability of a user is sent over a session opened with that
\* user's headers, never over one opened with another user's.
SessionsIsolated ==
    /\ [](\A k \in DOMAIN user_sessions :
            /\ k \in Users
            /\ user_sessions[k].headers = HeadersFor(k)
            /\ \A v \in Users \ {k} : user_sessions[k].headers # HeadersFor(v))
    /\ [][\A u \in Users :
            InvokeStep(u) =>
                /\ mcp[u].session.headers = HeadersFor(u)
                /\ \A v \in Users \ {u} : mcp[u].session.headers # HeadersFor(v)]_vars

\* The exchanges of both users are running together, both sessions are cached,
\* and a capability of one of them has been invoked over that user's session
BothCachedOneInvoked ==
    /\ DOMAIN user_sessions = Users
    /\ \A u \in Users : ex[u].pc # "idle"
    /\ \E u \in Users :
          /\ boundary.kind = "call_tool"
          /\ boundary.user = u
          /\ mcp[u].outcome = "returned"
          /\ mcp[u].session = user_sessions[u]


\* list_tools or call_tool of u fails on the session it got in this step
FailsOnSession(u) ==
    /\ mcp[u].pc = "use"
    /\ mcp'[u].pc = "idle"
    /\ mcp'[u].error \in {"list_tools", "call_tool"}

\* C18: a call that fails on a cached session removes the user's entry from both
\* maps, so that the next call of the user starts a handshake.
FailedSessionTornDown ==
    [][\A u \in Users :
          FailsOnSession(u) =>
              /\ session_key(u) \notin DOMAIN user_sessions'
              /\ session_key(u) \notin DOMAIN user_contexts']_vars

\* A capability call of a user has failed on the session, and the session it
\* failed on is still the one cached for the user
FailedSessionStillCached ==
    \E u \in Users :
        /\ mcp[u].pc = "idle"
        /\ mcp[u].error = "call_tool"
        /\ session_key(u) \in DOMAIN user_sessions
        /\ user_sessions[session_key(u)] = mcp[u].session


\* A call of list_tools made for c ends in this step
ListToolsEnds(c) ==
    /\ mcp'[c] # mcp[c]
    /\ mcp'[c].pc = "idle"
    /\ mcp'[c].op = "list_tools"

\* C19: list_tools always returns: with the empty list when no user id is given
\* or when establishing the session or listing on it failed; and the exchange
\* whose listing came back empty ends there with the message that the tools
\* are unavailable, without a call of the model and without a change of the
\* history.
ListToolsNeverRaises ==
    [][\A c \in Users \cup {NoUser} :
          ListToolsEnds(c) =>
              /\ mcp'[c].outcome = "returned"
              /\ mcp'[c].error # "" => mcp'[c].result = <<>>
              /\ c \in Users /\ mcp'[c].result = <<>> =>
                    /\ ex'[c].pc = "idle"
                    /\ last'.user = c
                    /\ last'.raised = ""
                    /\ last'.reply = NO_TOOLS_MESSAGE
                    /\ ex[c].llm_calls = 0
                    /\ response[c] = NoResponse
                    /\ UNCHANGED <<response, conversation_history>>]_vars

\* The listing failed on an established session, and the exchange ended with the
\* message that the tools are unavailable
ListingFailedExchangeEnded ==
    \E u \in Users :
        /\ mcp[u].pc = "idle"
        /\ mcp[u].op = "list_tools"
        /\ mcp[u].error = "list_tools"
        /\ mcp[u].result = <<>>
        /\ boundary = [kind |-> "list_tools", user |-> u, name |-> ""]
        /\ last.user = u
        /\ last.reply = NO_TOOLS_MESSAGE


\* stop_server returns or raises in this step
StopEnds == stop.pc # "done" /\ stop'.pc = "done"

\* C20: stop_server lists the cached sessions and then the cached contexts and
\* tries to close every one it listed, whether or not some close raised; while
\* it is closing, the server process runs; in its last step both maps are empty
\* and the process, running until then, is terminated, and killed when it did
\* not exit in time, after which no process handle is left.
StopClosesAllThenTerminates ==
    /\ [](stop.pc \in {"sessions", "contexts"} =>
            /\ server_process = [handle |-> TRUE, state |-> "running"]
            /\ stop.tried_sessions \subseteq stop.sessions
            /\ stop.tried_contexts \subseteq stop.contexts)
    /\ [][/\ stop.pc = "idle" /\ stop'.pc # "idle" =>
                stop'.sessions = DOMAIN user_sessions
          /\ stop.pc = "sessions" /\ stop'.pc = "contexts" =>
                /\ stop.tried_sessions = stop.sessions
                /\ stop'.contexts = DOMAIN user_contexts
          /\ StopEnds =>
                /\ stop.pc = "contexts"
                /\ stop.tried_sessions = stop.sessions
                /\ stop.tried_contexts = stop.contexts
                /\ DOMAIN user_sessions' = {}
                /\ DOMAIN user_contexts' = {}
                /\ server_process.state = "running"
                /\ ~server_process'.handle
                /\ server_process'.state \in {"exited", "killed"}
          /\ stop.pc = "done" => UNCHANGED server_process]_vars

\* stop_server has ended after a close raised: it had listed and tried both
\* users' sessions and contexts, and the process had to be killed
StoppedDespiteFailedClose ==
    /\ stop.pc = "done"
    /\ stop.logged
    /\ stop.tried_sessions = Users
    /\ stop.tried_contexts = Users
    /\ DOMAIN user_sessions = {}
    /\ DOMAIN user_contexts = {}
    /\ server_process = [handle |-> FALSE, state |-> "killed"]


\* A call of start_server is made in this step
StartServerCalled == boot'.calls = boot.calls + 1

\* C21: a call of start_server made while a process handle exists starts no
\* process and changes neither the handle nor the recorded URL nor a probe loop
\* under way; a process is started only by a call that found no handle, one
\* process per such call.
EndpointLaunchedOnce ==
    [][/\ StartServerCalled /\ server_process.handle =>
             /\ boot'.launched = boot.launched
             /\ boot'.skipped = boot.skipped + 1
             /\ boot'.pc = boot.pc
             /\ boot'.attempts = boot.attempts
             /\ UNCHANGED <<server_process, mcp_url>>
       /\ boot'.launched # boot.launched =>
             /\ StartServerCalled
             /\ ~server_process.handle
             /\ boot'.launched = boot.launched + 1
             /\ server_process' = [handle |-> TRUE, state |-> "running"]]_vars

\* Two further calls were made after the one that started the process, one of
\* them while the first was still probing, and the process was started once
SecondStartLaunchedNothing ==
    /\ boot.calls = 3
    /\ boot.launched = 1
    /\ boot.skipped = 2
    /\ boot.pc = "probe"
    /\ server_process = [handle |-> TRUE, state |-> "running"]


\* C22: start_server sends at most 30 probes, one sleep after each probe that
\* failed; it returns at the first probe answered with 200 and raises when the
\* 30th has failed and not before; when it raises to initialize the process
\* exits, so that the websocket task exists only after a probe was answered.
ProbesBoundedStartFatal ==
    /\ [](/\ boot.attempts <= max_attempts
          /\ boot.pc = "probe" => boot.slept = boot.attempts
          /\ boot.pc = "sleep" => boot.slept + 1 = boot.attempts
          /\ boot.outcome = "raised" => boot.attempts = max_attempts /\ boot.slept = max_attempts
          /\ ws.pc # "none" => boot.healthy /\ mcp_url = MCP_URL
          /\ main.pc = "exited" => ~running /\ ws.pc = "none")
    /\ [][/\ boot.pc = "probe" /\ boot'.pc = "idle" =>
                /\ boot'.outcome = "returned"
                /\ boot'.healthy
                /\ mcp_url' = MCP_URL
                /\ main.pc = "start_server" => main'.pc = "login"
          /\ boot.pc = "sleep" /\ boot'.pc = "idle" =>
                /\ boot.attempts = max_attempts
                /\ boot'.outcome = "raised"
                /\ main.pc = "start_server" => main'.pc = "exited"
          /\ boot.pc = "sleep" /\ boot.attempts < max_attempts /\ boot' # boot =>
                boot'.pc = "probe" \/ StartServerCalled
          /\ main.pc = "exited" => main'.pc = "exited"]_vars

\* All 30 probes of the call of initialize failed, start_server raised and the
\* process exited without a websocket task
ThirtyProbesFailed ==
    /\ boot.outcome = "raised"
    /\ boot.attempts = max_attempts
    /\ ~boot.healthy
    /\ main.pc = "exited"
    /\ ws.pc = "none"

\* The call of initialize returned at a later probe than the first, and the
\* websocket task was created
LaterProbeAnswered ==
    /\ boot.outcome = "returned"
    /\ boot.attempts > 1
    /\ boot.calls = 1
    /\ ws.pc = "connecting"


\* The frame is in the message loop of a connection, waiting for a frame or
\* handling one
Live == ws.pc \in {"live", "get_me", "get_channel", "get_user"}

Authenticating == ws.pc \in {"auth_send", "auth_recv"}

\* handle_message is called for a frame in this step
Forwards == ws'.forwarded # ws.forwarded

\* C23: on every connection the message loop is entered, and a frame handled or
\* passed to handle_message, only after the challenge was sent and "hello" was
\* received on that connection; a connection is authenticated only after it was
\* opened, and is live only after it was authenticated; what arrives during the
\* authentication is passed to nobody.
LiveOnlyAfterConfirmation ==
    /\ [](Live => ws.sent /\ ws.confirmed)
    /\ [](ws.pc = "connecting" => ~ws.sent /\ ~ws.confirmed)
    /\ [][/\ Forwards => ws.pc = "get_user" /\ ws.sent /\ ws.confirmed
          /\ ws'.arrived # ws.arrived => ws.pc = "live"
          /\ ws'.pc = "live" /\ ~Live => ws.pc = "auth_recv" /\ ws.sent
          /\ ws'.pc = "auth_recv" /\ ws.pc # "auth_recv" => ws.pc = "auth_send"
          /\ ws'.pc = "auth_send" /\ ws.pc # "auth_send" => ws.pc = "connecting"
          /\ ws.confirmed' /\ ~ws.confirmed => ws.pc = "auth_recv"]_vars

\* A direct message has been passed on by a connection on which the challenge
\* was sent and "hello" received
ForwardedAfterHello ==
    /\ ws.forwarded # <<>>
    /\ ws.pc = "live"
    /\ ws.sent /\ ws.confirmed


\* The frame is a new-message event of a direct channel, written by somebody
\* other than the bot
NewDirectMessageOfOther(e) ==
    /\ e.json
    /\ e.event = "posted"
    /\ e.has_post
    /\ e.channel_type = "D"
    /\ e.user_id # bot_user_id

\* C24: handle_message is called only for a frame that is a new-message event
\* of a direct channel whose author is not the bot (and that has an author and
\* a message that is not blank); the handling of any other frame calls
\* handle_message for nothing and posts nothing.
OnlyDirectMessagesForwarded ==
    [][/\ Forwards =>
             /\ NewDirectMessageOfOther(ws.event)
             /\ ws.event.user_id # ""
             /\ strip(ws.event.message) # <<>>
             /\ ws'.forwarded = Append(ws.forwarded, ws.arrived)
       /\ ~NewDirectMessageOfOther(ws.event) =>
             /\ ws'.forwarded = ws.forwarded
             /\ ws'.started = ws.started
             /\ ws'.posted = ws.posted
       /\ ws'.posted # ws.posted => Forwards]_vars

\* Of three frames the message loop took, the second was passed on and the two
\* others were dropped
OneOfThreeForwarded ==
    /\ ws.arrived = 3
    /\ ws.forwarded = <<2>>
    /\ ws.pc = "live"


\* A connection attempt begins in this step after an earlier connection
Reconnects == ws'.pc = "connecting" /\ ws.pc # "connecting"

\* C25: while the bot is running, a connection attempt that follows the end of
\* a connection, by an error or by a clean close, begins only when the sleep of
\* 5 seconds is over.
ReconnectsAfterDelay ==
    [][Reconnects => ws.pc = "sleep"]_vars

\* The same for the connections an exception ended: a failed connect, send or
\* recv, a frame that is not JSON, the authentication timeout, a closure with
\* an error
ErrorReconnectsAfterDelay ==
    [][/\ Reconnects /\ ws'.error # "" => ws.pc = "sleep"
       /\ running /\ ws'.error # ws.error /\ ws'.error # "" => ws'.pc = "sleep"]_vars

\* A connection attempt is under way that began right after the clean close
\* of a live connection, without a sleep
ReconnectedAtOnce ==
    /\ running
    /\ ws.pc = "connecting"
    /\ ws.error = ""
    /\ ws.arrived > 0


\* C26: while the bot is running the websocket task neither ends nor is
\* cancelled, and the main task does not return, whatever errors the
\* connections met; and after every failed connection, however many failed in
\* a row before it, another attempt is made unless the bot is stopped.
IngestionRetriesForever ==
    /\ [](ws.pc \in {"ended", "cancelled"} => ~running)
    /\ [](main.pc # "serving" => ~running)
    /\ [](running /\ ws.pc = "sleep" => <>(ws.pc = "connecting" \/ ~running))

\* A connection attempt is under way after as many failed connections in a row
\* as the model tells apart, the last one an authentication that timed out
ConnectingAfterManyFailures ==
    /\ running
    /\ ws.pc = "connecting"
    /\ ws.failures = MaxFailures
    /\ ws.error = "timeout"


\* The authentication of a connection is given up in this step because the time
\* is over
AuthTimesOut == ws.pc = "auth_recv" /\ ws'.pc # "auth_recv" /\ ws'.error = "timeout"

\* C27, as the claim has it: a connection whose confirmation has not come when
\* 10 seconds have passed since the challenge never reaches the message loop.
NoLateConfirmation == Live => ~ws.late

\* C27, as the code has it: no recv is begun once 10 seconds have passed since
\* the challenge, whatever frames came before; the attempt is then given up
\* without the connection having been live and without a frame passed on, and
\* while the bot runs the next attempt follows the sleep; a "hello" that the
\* recv under way at the 10 seconds still brings is accepted.
AuthAbandonedAtLoopTest ==
    /\ [](ws.pc = "auth_recv" =>
            ws.elapsed < auth_timeout * TicksPerSecond /\ ~ws.confirmed)
    /\ [](ws.late => ws.confirmed)
    /\ [][/\ AuthTimesOut =>
                /\ ws.elapsed + recv_timeout * TicksPerSecond >= auth_timeout * TicksPerSecond
                /\ ~ws'.confirmed
                /\ ws'.forwarded = ws.forwarded
                /\ ws'.arrived = ws.arrived
                /\ ws'.pc = IF running THEN "sleep" ELSE "ended"
          /\ ws.pc = "sleep" /\ ws'.pc # "sleep" =>
                ws'.pc \in {"connecting", "ended", "cancelled"}
          /\ ws.pc = "sleep" => ws'.forwarded = ws.forwarded
                                /\ ws'.arrived = ws.arrived]_vars

\* The authentication was given up for the time while the bot was running, and
\* the task sleeps before the next attempt
AuthTimedOutSleeping ==
    /\ running
    /\ ws.pc = "sleep"
    /\ ws.error = "timeout"
    /\ ws.sent /\ ~ws.confirmed

\* A connection is in its message loop whose "hello" came later than 10 seconds
\* after the challenge
LiveAfterLateHello ==
    /\ ws.pc = "live"
    /\ ws.late


\* C28: the frames that pass the filter are dealt with in the order of their
\* arrival, each before the next frame is taken: handle_message has begun to run
\* and the reply has been posted for every frame passed on so far, in that
\* order.
EventsAnsweredInOrder ==
    /\ ws.started = ws.forwarded
    /\ ws.posted = ws.forwarded

\* What the code keeps of it: handle_message is called for the frames in the
\* order of their arrival, one frame at a time
CalledInArrivalOrder ==
    /\ \A i, j \in 1 .. Len(ws.forwarded) : i < j => ws.forwarded[i] < ws.forwarded[j]
    /\ \A i \in 1 .. Len(ws.forwarded) : ws.forwarded[i] <= ws.arrived
    /\ ws.started = <<>>
    /\ ws.posted = <<>>

\* Two direct messages were passed on, one after the other, and for neither has
\* handle_message begun to run or a reply been posted
TwoForwardedNoneAnswered ==
    /\ Len(ws.forwarded) = 2
    /\ ws.started = <<>>
    /\ ws.posted = <<>>
    /\ ws.pc = "live"

\* A step of another task than the websocket task: the task of stop that the
\* signal handler created, or the main task
OtherTaskStep == (\E w \in WaitOutcomes : bot_stop(w)) \/ main_returns

\* C29: while a request of the handling of a frame is in progress, the event
\* loop can run another task.
LoopFreeDuringRequests ==
    Blocked /\ running => ENABLED OtherTaskStep

\* The same between two frames, when the websocket task awaits
LoopFreeWhileAwaiting ==
    ws.pc \in {"live", "sleep", "connecting", "auth_recv"} /\ running /\ main.pc = "serving"
        => ENABLED OtherTaskStep

\* The event loop's thread is inside the request get_channel of handle_post,
\* and a signal has nothing to run its handler
StopWaitsForRequest ==
    /\ ws.pc = "get_channel"
    /\ running
    /\ ~ENABLED OtherTaskStep

----------------------------------------------------------------------------
(* Isolation of the users under interleaved handle_message calls *)

\* The entry of key k in the dict d, or nothing
Entry(d, k) == IF k \in DOMAIN d THEN <<d[k]>> ELSE <<>>

\* What the program holds for user u: dialog phase, scratch data, conversation
\* history, stored credential, cached session and its transport
PerUser(u) ==
    <<Entry(dialog_states, u), Entry(temp_data, u), Entry(conversation_history, u),
      Entry(storage, u), Entry(user_sessions, u), Entry(user_contexts, u)>>

\* This step is a step of the handling of a message of u: handle_message(u, _)
\* is called, or the exchange of u or its MCPClient call takes a step
Acts(u) ==
    \/ ex'[u] # ex[u]
    \/ last'.n # last.n /\ last'.user = u
    \/ mcp'[u] # mcp[u] /\ (mcp[u].pc # "idle" \/ mcp'[u].pc # "idle")

\* C30: under every interleaving of the handle_message calls of two users, each
\* step belongs to the handling of a message of one user A (a command, a step of
\* the registration dialog or a step of a query exchange, failing ones included)
\* and leaves the dialog phase, the scratch data, the conversation history, the
\* stored credential and the cached session of every other user B unchanged.
UsersIsolated ==
    [][/\ \E A \in Users : Acts(A)
       /\ \A A \in Users :
             Acts(A) => \A B \in Users \ {A} : PerUser(B)' = PerUser(B)]_vars

\* The model call of A's exchange has just failed while an exchange of B, who has
\* a history and a cached session, is suspended at an await
FailedBesideRunningExchange ==
    \E A \in Users, B \in Users :
        /\ A # B
        /\ boundary = [kind |-> "chat", user |-> A, name |-> ""]
        /\ last.user = A
        /\ last.reply = query_error_message(LLM_EXCEPTION)
        /\ ex[A].pc = "idle"
        /\ ex[B].pc # "idle"
        /\ History(B) # <<>>
        /\ B \in DOMAIN user_sessions
        /\ A \in DOMAIN user_sessions

----------------------------------------------------------------------------
(* Storage.has_jira_credentials *)

\* C31: has_jira_credentials answers from the presence of a non-empty stored
\* secret alone: no call of it runs _decrypt, and none fails on a secret that
\* cannot be decrypted.
HasNeverDecrypts ==
    last.message = <<"has_jira_credentials">> =>
        boundary.kind # "decrypt" /\ last.raised = ""

\* has_jira_credentials was called for a user whose stored secret is a token of
\* this key, ran _decrypt and answered True
HasDecryptedToken ==
    /\ last.message = <<"has_jira_credentials">>
    /\ boundary.kind = "decrypt"
    /\ last.reply = <<"True">>

\* has_jira_credentials was called for a user whose stored secret is no token of
\* this key, and raised
HasFailedOnCorruptSecret ==
    /\ last.message = <<"has_jira_credentials">>
    /\ last.user \in DOMAIN storage
    /\ storage[last.user].jira_password_encrypted = T_corrupt
    /\ last.raised = "InvalidToken"

----------------------------------------------------------------------------
(* What a reply holds *)

\* The texts that come from the protocol and the libraries: the results of
\* capability calls as call_tool returned them (handlers.py:287-290) and the
\* str(e) of exceptions
Payloads ==
    {result_str(TOOLS[i]) : i \in 1..Len(TOOLS)} \cup {TOOL_EXCEPTION, LLM_EXCEPTION}

\* C32: no reply holds a raw capability result or the text of an exception,
\* whatever the messages and the failures of an exchange.
RepliesHoldNoPayload == \A p \in Payloads : ~Contains(last.reply, p)

\* The reply of an exchange whose model call raised holds the text of the
\* exception
ReplyHoldsExceptionText ==
    /\ last.reply = query_error_message(LLM_EXCEPTION)
    /\ Contains(last.reply, LLM_EXCEPTION)

\* The reply of an exchange holds the raw result of a capability call
ReplyHoldsRawResult ==
    \E i \in 1..Len(TOOLS) : Contains(last.reply, result_str(TOOLS[i]))

\* No reply holds the password the user submitted or the stored token of it
SecretNotInReply ==
    /\ ~Contains(last.reply, M_secret) \/ last.reply = None
    /\ ~Contains(last.reply, _encrypt(M_secret)) \/ last.reply = None

----------------------------------------------------------------------------
(* Malformed call descriptors *)

\* The model output holds a descriptor that is no JSON
HasMalformed(raw) == \E i \in 1..Len(raw) : raw[i].kind = "bad"

\* A model call of u returned in this step, and its output held a malformed
\* descriptor
MalformedReturned(u) == ChatReturned(u) /\ HasMalformed(response'[u].raw)

\* What holds of tool calls and text blocks whatever becomes of the malformed
\* descriptor: it makes no tool call, the well-formed descriptors beside it are
\* parsed, and the plain text beside it is returned
MalformedTolerated(r) ==
    /\ [i \in 1..Len(r.tool_calls) |-> r.tool_calls[i].name]
          = KnownNames(DescriptorNames(r.raw), r.manifest)
    /\ \A i \in 1..Len(r.raw) :
          r.raw[i].kind = "text" => Contains(r.content, strip(r.raw[i].text))

----------------------------------------------------------------------------
(* Shutdown by a termination signal *)

\* start has returned and the process exits
Exits == main.pc = "returned"

\* The endpoint process has been terminated or killed
EndpointStopped == server_process.state \in {"exited", "killed"}

\* C34: when start has returned after a termination signal, every cached session
\* has been closed and the endpoint process has been terminated, whatever the
\* order in which the task of stop and the main task ran.
ShutdownCompleteBeforeExit ==
    Exits =>
        /\ EndpointStopped
        /\ stop.tried_sessions = stop.sessions
        /\ stop.tried_contexts = stop.contexts
        /\ stop.pc = "done"

\* Where the task of stop ran to its end before start returned, all it listed was
\* closed and the endpoint is stopped
CompletedStopStoppedEndpoint ==
    Exits /\ stop.pc = "done" =>
        /\ EndpointStopped
        /\ stop.tried_sessions = stop.sessions
        /\ stop.tried_contexts = stop.contexts

\* start has returned while the task of stop was closing a session: the task was
\* cancelled, a session is still cached and the endpoint process is running
OrphanedEndpoint ==
    /\ Exits
    /\ stop.pc = "cancelled"
    /\ DOMAIN user_sessions # {}
    /\ server_process = [handle |-> TRUE, state |-> "running"]

----------------------------------------------------------------------------
(* Concurrent calls of _get_or_create_session *)

\* The callers whose handshake for user k went through: each of them holds a
\* session it opened, and nothing has closed it
Established(k) == {c \in DOMAIN mcp : mcp[c].user = k /\ mcp[c].outcome = "created"}

\* The callers whose transport for user k is open: context.__aenter__() returned
\* for them, and nothing has closed it
TransportsOpen(k) == {c \in DOMAIN mcp : mcp[c].user = k /\ mcp[c].opened}

\* C35: for one user, whatever the interleaving of the calls that found no
\* cached session, at most one session is open and not closed at any moment, so
\* none is left outside the cache and unclosed.
AtMostOneOpenSession ==
    \A k \in Users :
        /\ Cardinality(Established(k)) <= 1
        /\ Cardinality(TransportsOpen(k)) <= 1

\* The map holds at most one entry per user, written by a handshake that went
\* through
OneCachedEntryPerUser ==
    \A k \in DOMAIN user_sessions :
        /\ k \in Users
        /\ Established(k) # {}
        /\ DOMAIN user_contexts = DOMAIN user_sessions

\* Two callers found no session of u1, both handshakes went through, and the map
\* holds one entry for u1: the session of the other caller is open and nothing
\* refers to it
RacedSessionLeaked ==
    /\ Cardinality(Established("u1")) = 2
    /\ DOMAIN user_sessions = {"u1"}

----------------------------------------------------------------------------
(* The session maps after stop_server *)

\* stop_server has run to its end
ShutDown == stop.pc = "done"

\* C36: once stop_server has completed, the session maps stay empty, and a call
\* of _get_or_create_session made after it raises instead of starting a
\* handshake.
CacheEmptyAfterShutdown ==
    /\ [](ShutDown => DOMAIN user_sessions = {} /\ DOMAIN user_contexts = {})
    /\ [][\A c \in DOMAIN mcp :
            ShutDown /\ mcp[c].pc = "idle" /\ mcp'[c] # mcp[c]
                => mcp'[c].outcome = "raised"]_vars

\* stop_server leaves the address of the endpoint in place, so a lookup made
\* after it that finds no entry goes on to the handshake
LookupAfterShutdownOpens ==
    /\ [](Truthy(mcp_url))
    /\ [][\A c \in DOMAIN mcp :
            ShutDown /\ mcp[c].pc = "idle" /\ mcp'[c] # mcp[c]
                     /\ mcp'[c].user \notin DOMAIN user_sessions
                => mcp'[c].pc = "enter_context"]_vars

\* stop_server has completed, the endpoint process is stopped, and the maps hold a
\* session
SessionCachedAfterShutdown ==
    /\ ShutDown
    /\ ~server_process.handle
    /\ DOMAIN user_sessions # {}

----------------------------------------------------------------------------
(* What start_server leaves *)

\* A call of start_server returns in this step without raising: at the "already
\* running" test, or after a probe answered with 200
StartServerReturns ==
    \/ boot'.skipped = boot.skipped + 1
    \/ boot'.outcome = "returned" /\ boot.pc = "probe" /\ boot'.pc = "idle"

\* C37: whenever a call of start_server returns without raising, a probe has
\* succeeded and the address of the endpoint is recorded; and a call that
\* raised leaves no endpoint process running.
StartReturnsReady ==
    /\ [][StartServerReturns => Truthy(mcp_url') /\ boot'.healthy]_vars
    /\ [](boot.outcome \in {"raised", "popen_raised"} => server_process.state # "running")

\* A call that returns after its own probe leaves the address recorded
ProbedStartReturnsReady ==
    [][boot'.outcome = "returned" /\ boot.pc = "probe" /\ boot'.pc = "idle"
          => Truthy(mcp_url') /\ boot'.healthy]_vars

\* All probes of a call failed and it raised: the process it started is still
\* running and its handle is still held
FailedStartProcessRunning ==
    /\ boot.outcome = "raised"
    /\ boot.attempts = max_attempts
    /\ server_process = [handle |-> TRUE, state |-> "running"]
    /\ mcp_url = None

\* A second call has returned at the "already running" test while no probe had
\* succeeded and no address was recorded
SkippedWhileNotReady ==
    /\ boot.skipped > 0
    /\ ~boot.healthy
    /\ mcp_url = None

----------------------------------------------------------------------------
(* Exchanges that end without an answer *)

\* The replies of an exchange that ended without a final answer: the capability
\* list was empty or unavailable, or an exception left the loop
IsFailureReply(reply) ==
    \/ reply = NO_TOOLS_MESSAGE
    \/ Prefix(reply, 1) = Prefix(query_error_message(<<>>), 1)

\* The exchange of u ends in this step without a final answer
ExchangeFails(u) ==
    /\ ex[u].pc # "idle"
    /\ ex'[u].pc = "idle"
    /\ ReturnsTo(u)
    /\ IsFailureReply(last'.reply)

\* C38: an exchange that ends without a final answer returns an error message
\* and leaves the conversation history and the dialog phase of its user as they
\* were when it began; no step of an exchange before its last touches them.
FailedExchangeLeavesState ==
    [][\A u \in Users :
          /\ ExchangeFails(u) =>
                /\ History(u)' = History(u)
                /\ Len(History(u)') = last'.hist0
                /\ DialogState(u)' = DialogState(u)
                /\ DialogState(u)' = last'.state
                /\ last'.raised = ""
          /\ ex[u].pc # "idle" /\ ex'[u].pc # "idle" =>
                /\ History(u)' = History(u)
                /\ DialogState(u)' = DialogState(u)]_vars

\* After an answered exchange of a user, the model call of the next one raised:
\* the error message was returned and the history holds the first exchange only
FailedAfterAnswered ==
    /\ last.reply = query_error_message(LLM_EXCEPTION)
    /\ boundary.kind = "chat"
    /\ Len(History(last.user)) = 2
    /\ last.hist0 = 2

\* The capability list of an exchange was empty or unavailable: the exchange
\* ended with the message about the list, with the history as it was
NoToolsAfterAnswered ==
    /\ last.reply = NO_TOOLS_MESSAGE
    /\ boundary.kind = "list_tools"
    /\ Len(History(last.user)) = 2
    /\ last.hist0 = 2

----------------------------------------------------------------------------
(* The shape of the conversation history *)

\* C39: in every reachable state the history of every user has even length and
\* is a sequence of pairs, a user turn followed by an assistant turn, also after
\* the oldest turns were dropped at the cap; its turns carry a role and a
\* content only, so no system turn, tool-result turn or tool-call request of an
\* exchange is in it.
HistoryIsPairs ==
    \A u \in DOMAIN conversation_history :
        LET h == conversation_history[u]
        IN  /\ Len(h) % 2 = 0
            /\ \A i \in 1..Len(h) :
                  /\ DOMAIN h[i] = {"role", "content"}
                  /\ h[i].role = IF i % 2 = 1 THEN "user" ELSE "assistant"

\* An exchange was answered while the history held 20 turns: the oldest pair was
\* dropped, and the 20 turns kept begin with a user turn
EvictedHistoryBeginsWithUser ==
    /\ last.hist0 = max_history
    /\ Len(History("u1")) = max_history
    /\ History("u1")[1].role = "user"
    /\ History("u1")[max_history] = [role |-> "assistant", content |-> last.reply]

\* An exchange with a capability call was answered: the history holds its pair
\* and none of the turns of the loop
LoopTurnsNotInHistory ==
    /\ ex["u1"].pc = "idle"
    /\ boundary.kind = "chat"
    /\ mcp["u1"].op = "call_tool"
    /\ Len(History("u1")) = 2

----------------------------------------------------------------------------
(* The scratch data of the registration dialog *)

\* C40: in every reachable state a user is in the phase waiting_username or
\* waiting_password exactly when temp_data holds an entry for the user, so in
\* the phase NONE no entry is left; in the phase waiting_password the entry
\* holds the login, and no call fails on reading it.
ScratchMatchesPhase ==
    /\ \A u \in Users :
          /\ DialogState(u) \in {DIALOG_STATE_WAITING_USERNAME,
                                 DIALOG_STATE_WAITING_PASSWORD}
                <=> u \in DOMAIN temp_data
          /\ DialogState(u) = DIALOG_STATE_WAITING_PASSWORD
                => temp_data[u].username # None
    /\ last.raised # "KeyError"

\* A password message was handled: the login was read from the scratch entry,
\* and the call went on to the validation
PasswordStepReadLogin ==
    /\ last.state = DIALOG_STATE_WAITING_PASSWORD
    /\ last.raised = "AttributeError"
    /\ temp_data[last.user].username # None
    /\ DialogState(last.user) = DIALOG_STATE_WAITING_PASSWORD

====
